---- MODULE Spec2Model ----
\* Verification model of the adbc-clickhouse driver: the get_objects
\* hierarchy assembler (src/src/utils/get_objects.rs), the metadata query
\* builders (src/src/utils.rs), the info encoder (src/src/utils/get_info.rs),
\* the connection (src/src/connection.rs), the database
\* (src/src/database.rs), the statement (src/src/statement.rs) and the
\* readers (src/src/reader.rs).
EXTENDS Integers, Sequences, FiniteSets, TLC

VARIABLES backend, pc, args, b, loc, inflight, log, result, prev, q

\* the database's options, the connection's server version, the statement,
\* the executor calls made by the latest driver call with their outcome,
\* and what the latest driver call returned
VARIABLES db, clickhouse_version, stmt, sent, ret

\* a GetInfoBuilder, the calls made on it, the codes get_info was asked
\* for, and the record finish returned
VARIABLES get_info_builder, info_calls, info_codes, info_batch

\* a SingleBatchReader, a ClickhouseReader, what each was constructed from,
\* and what the next calls on each have returned so far
VARIABLES single_reader, ch_reader, source, yielded

objVars == <<backend, pc, args, b, loc, inflight, log, result, prev, q>>
driverVars == <<db, clickhouse_version, stmt, sent, ret>>
infoVars == <<get_info_builder, info_calls, info_codes, info_batch>>
readerVars == <<single_reader, ch_reader, source, yielded>>

vars == <<backend, pc, args, b, loc, inflight, log, result, prev, q,
          db, clickhouse_version, stmt, sent, ret,
          get_info_builder, info_calls, info_codes, info_batch,
          single_reader, ch_reader, source, yielded>>

\* ------------------------------------------------------------------
\* Bounds of the explored backend content
\* ------------------------------------------------------------------
MaxSchemas == 2
MaxTables == 2
MaxCols == 2

\* ------------------------------------------------------------------
\* Option<T>: None is the empty sequence, Some(v) the one-element sequence
\* ------------------------------------------------------------------
None == <<>>
Some(v) == <<v>>
is_some(o) == Len(o) = 1
unwrap_or(o, d) == IF is_some(o) THEN o[1] ELSE d

\* sequences over S of length at most n
BSeq(S, n) == UNION {[1..k -> S] : k \in 0..n}

RECURSIVE Flatten(_)
Flatten(ss) == IF ss = <<>> THEN <<>> ELSE Head(ss) \o Flatten(Tail(ss))

\* ------------------------------------------------------------------
\* Backend content (INFORMATION_SCHEMA of the server).  A backend is a
\* sequence of schemas, each a sequence of tables, each the number of its
\* columns.  Names and types are derived from the position.  The explored
\* backends have any number of tables in each schema; the column counts
\* cycle through 0..MaxCols from table to table, starting anywhere.
\* ------------------------------------------------------------------
MakeBackend(tc, v) ==
    [i \in 1..Len(tc) |-> [j \in 1..tc[i] |-> (i + j + v) % (MaxCols + 1)]]

Backends == {MakeBackend(tc, v) : tc \in BSeq(0..MaxTables, MaxSchemas), v \in 0..MaxCols}

SchemaName(i) == "s" \o ToString(i)
TableName(j) == "t" \o ToString(j)
TableType(j) == IF j % 2 = 1 THEN "BASE TABLE" ELSE "VIEW"
ColumnName(j, k) == "c" \o ToString(j + k - 1)
ColumnType(i, j, k) == "ty_" \o ToString(i) \o "_" \o ToString(j) \o "_" \o ToString(k)

\* rows of INFORMATION_SCHEMA.SCHEMATA / TABLES / COLUMNS of backend be
SchemataRows(be) ==
    [i \in 1..Len(be) |-> [catalog_name |-> "default", schema_name |-> SchemaName(i)]]
TablesRowsOf(be, i) ==
    [j \in 1..Len(be[i]) |->
        [table_catalog |-> "default", table_schema |-> SchemaName(i),
         table_name |-> TableName(j), table_type |-> TableType(j)]]
TablesRows(be) == Flatten([i \in 1..Len(be) |-> TablesRowsOf(be, i)])
ColumnsRowsOf(be, i, j) ==
    [k \in 1..be[i][j] |->
        [table_catalog |-> "default", table_schema |-> SchemaName(i),
         table_name |-> TableName(j), table_type |-> TableType(j),
         column_name |-> ColumnName(j, k), xdbc_type_name |-> ColumnType(i, j, k)]]
ColumnsRows(be) ==
    Flatten([i \in 1..Len(be) |->
        Flatten([j \in 1..Len(be[i]) |-> ColumnsRowsOf(be, i, j)])])

\* SQL LIKE for the patterns the model draws: "%" matches every value,
\* a pattern without wildcard matches the equal value only
Like(value, pattern) == pattern = "%" \/ value = pattern

\* ------------------------------------------------------------------
\* ObjectDepth and the depth predicates
\* ------------------------------------------------------------------
Depths == {"Catalogs", "Schemas", "Tables", "Columns", "All"}

is_schema_required(depth) == depth \in {"Catalogs", "Schemas", "Tables", "Columns", "All"}
is_table_required(depth) == depth \in {"Tables", "Columns", "All"}
is_column_required(depth) == depth \in {"Columns", "All"}

\* ------------------------------------------------------------------
\* The per-level fetches build() calls; each returns rows with a name
\* (and a type for columns)
\* ------------------------------------------------------------------
fetch_schemas(be, db_schema) ==
    LET rows == SchemataRows(be)
        hit(r) == Like(r.schema_name, db_schema)
        sel == SelectSeq(rows, hit)
    IN  [n \in 1..Len(sel) |-> [name |-> sel[n].schema_name]]

fetch_schema_tables(be, schema, table_name) ==
    LET rows == TablesRows(be)
        hit(r) == r.table_schema = schema /\ Like(r.table_name, table_name)
        sel == SelectSeq(rows, hit)
    IN  [n \in 1..Len(sel) |-> [name |-> sel[n].table_name]]

fetch_table_columns(be, schema, table, column_name) ==
    LET rows == ColumnsRows(be)
        hit(r) == /\ r.table_schema = schema
                  /\ r.table_name = table
                  /\ Like(r.column_name, column_name)
        sel == SelectSeq(rows, hit)
    IN  [n \in 1..Len(sel) |-> [name |-> sel[n].column_name, type |-> sel[n].xdbc_type_name]]

\* ------------------------------------------------------------------
\* The metadata query builders of NativeClientExt (utils.rs)
\* ------------------------------------------------------------------
FETCH_ALL_BASE_SQL ==
    "SELECT c.table_catalog, c.table_schema, c.table_name, t.table_type, c.column_name, c.data_type as xdbc_type_name FROM INFORMATION_SCHEMA.COLUMNS c JOIN INFORMATION_SCHEMA.TABLES t ON c.table_catalog = t.table_catalog AND c.table_schema = t.table_schema AND c.table_name = t.table_name"
FETCH_MIN_TABLE_BASE_SQL ==
    "SELECT t.table_catalog, t.table_schema, t.table_name, t.table_type FROM INFORMATION_SCHEMA.TABLES t"
FETCH_MIN_SCHEMA_BASE_SQL ==
    "SELECT s.catalog_name, s.schema_name FROM INFORMATION_SCHEMA.SCHEMATA s"

\* Vec<String>::join
RECURSIVE Join(_, _)
Join(strs, sep) ==
    IF strs = <<>> THEN ""
    ELSE IF Len(strs) = 1 THEN strs[1]
    ELSE strs[1] \o sep \o Join(Tail(strs), sep)

\* one pushed predicate: its text, and the column, operator and parameter
\* names the text stands for
LikePred(alias, field, name) ==
    [text |-> alias \o "." \o field \o " LIKE {" \o name \o ":String}",
     field |-> field, op |-> "LIKE", names |-> <<name>>]

\* variant: the value is also concatenated into the text
LikeClause_inline(filter, alias, field, name) ==
    IF is_some(filter)
    THEN [pred |-> <<[text |-> alias \o "." \o field \o " LIKE {" \o name
                                \o ":String} -- " \o filter[1],
                      field |-> field, op |-> "LIKE", names |-> <<name>>]>>,
          params |-> <<<<name, filter[1]>>>>]
    ELSE [pred |-> <<>>, params |-> <<>>]

\* if let Some(filter) = filter { pred.push(..); params.push(..) }
LikeClause(filter, alias, field, name) ==
    IF is_some(filter)
    THEN [pred |-> <<LikePred(alias, field, name)>>, params |-> <<<<name, filter[1]>>>>]
    ELSE [pred |-> <<>>, params |-> <<>>]

\* variant: an explicitly empty set yields the predicate "IN ()"
TableTypeClause_noEmptyGuard(table_type_filter) ==
    IF is_some(table_type_filter)
    THEN LET v == table_type_filter[1]
             name(i) == "table_type_filter_" \o ToString(i - 1)
             idents == [i \in 1..Len(v) |-> "{" \o name(i) \o ":String}"]
         IN  [pred |-> <<[text |-> "t.table_type IN (" \o Join(idents, ",") \o ")",
                          field |-> "table_type", op |-> "IN",
                          names |-> [i \in 1..Len(v) |-> name(i)]]>>,
              params |-> [i \in 1..Len(v) |-> <<name(i), v[i]>>]]
    ELSE [pred |-> <<>>, params |-> <<>>]

\* if let Some(table_type_filter) = table_type_filter
\*     && !table_type_filter.is_empty() { ... }
TableTypeClause(table_type_filter) ==
    IF is_some(table_type_filter) /\ table_type_filter[1] # <<>>
    THEN LET v == table_type_filter[1]
             name(i) == "table_type_filter_" \o ToString(i - 1)
             idents == [i \in 1..Len(v) |-> "{" \o name(i) \o ":String}"]
         IN  [pred |-> <<[text |-> "t.table_type IN (" \o Join(idents, ",") \o ")",
                          field |-> "table_type", op |-> "IN",
                          names |-> [i \in 1..Len(v) |-> name(i)]]>>,
              params |-> [i \in 1..Len(v) |-> <<name(i), v[i]>>]]
    ELSE [pred |-> <<>>, params |-> <<>>]

\* let (sql, params) = if !pred.is_empty() { .. WHERE .. } else { (base, None) }
Finish_query(base, clauses) ==
    LET pred == Flatten([i \in 1..Len(clauses) |-> clauses[i].pred])
        params == Flatten([i \in 1..Len(clauses) |-> clauses[i].params])
    IN  IF pred # <<>>
        THEN [sql |-> base \o "\nWHERE " \o Join([i \in 1..Len(pred) |-> pred[i].text], " AND "),
              params |-> Some(params), pred |-> pred]
        ELSE [sql |-> base, params |-> None, pred |-> <<>>]

fetch_min_schemas(catalog_filter, schema_filter) ==
    Finish_query(FETCH_MIN_SCHEMA_BASE_SQL,
        <<LikeClause(catalog_filter, "s", "catalog_name", "catalog_filter"),
          LikeClause(schema_filter, "s", "schema_name", "schema_filter")>>)

fetch_min_schema_tables(catalog_filter, schema_filter, table_filter, table_type_filter) ==
    Finish_query(FETCH_MIN_TABLE_BASE_SQL,
        <<LikeClause(catalog_filter, "t", "table_catalog", "catalog_filter"),
          LikeClause(schema_filter, "t", "table_schema", "schema_filter"),
          LikeClause(table_filter, "t", "table_name", "table_filter"),
          TableTypeClause(table_type_filter)>>)

fetch_all(catalog_filter, schema_filter, table_filter, table_type_filter, column_filter) ==
    Finish_query(FETCH_ALL_BASE_SQL,
        <<LikeClause(catalog_filter, "c", "table_catalog", "catalog_filter"),
          LikeClause(schema_filter, "c", "table_schema", "schema_filter"),
          LikeClause(table_filter, "c", "table_name", "table_filter"),
          LikeClause(column_filter, "c", "column_name", "column_filter"),
          TableTypeClause(table_type_filter)>>)

\* The server's evaluation of a parameterised query over the rows of the
\* view it selects from: a row is returned when every predicate holds with
\* the bound parameter values
ParamValue(params, name) ==
    LET i == CHOOSE i \in 1..Len(params) : params[i][1] = name IN params[i][2]

RowMatches(row, query) ==
    \A i \in 1..Len(query.pred) :
        LET p == query.pred[i]
        IN  IF p.op = "LIKE"
            THEN Like(row[p.field], ParamValue(query.params[1], p.names[1]))
            ELSE \E k \in 1..Len(p.names) :
                    row[p.field] = ParamValue(query.params[1], p.names[k])

query_params(query, rows) == SelectSeq(rows, LAMBDA r : RowMatches(r, query))

\* ------------------------------------------------------------------
\* Errors
\* ------------------------------------------------------------------
ExecutorErrors == {[io |-> TRUE, text |-> "connection reset"],
                   [io |-> FALSE, text |-> "protocol"]}

NoError == [io |-> FALSE, text |-> ""]

from_clickhouse_error(context, error) ==
    IF error.io
    THEN [kind |-> "err", status |-> "IO",
          message |-> "[Clickhouse] " \o context \o ": " \o error.text]
    ELSE [kind |-> "err", status |-> "Internal",
          message |-> "[Clickhouse] " \o context \o ": " \o error.text]

\* ------------------------------------------------------------------
\* GetObjectsBuilder
\* ------------------------------------------------------------------
GetObjectsBuilder_new(db_schema, table_name, column_name) ==
    [catalog_names |-> <<>>,
     catalog_db_schema_offsets |-> <<0>>,
     catalog_db_schema_offset_prev |-> 0,
     catalog_db_schema_names |-> <<>>,
     table_offsets |-> <<0>>,
     table_offset_prev |-> 0,
     table_names |-> <<>>,
     table_types |-> <<>>,
     column_offsets |-> <<0>>,
     column_offset_prev |-> 0,
     column_names |-> <<>>,
     column_types |-> <<>>,
     db_schema |-> unwrap_or(db_schema, "%"),
     table_name |-> unwrap_or(table_name, "%"),
     column_name |-> unwrap_or(column_name, "%")]

NoBuilder == GetObjectsBuilder_new(None, None, None)

\* build: self.catalog_names.push("default")
PushCatalog(bb) == [bb EXCEPT !.catalog_names = Append(@, "default")]

\* build: bookkeeping after the schema rows were collected
ExtendSchemas(bb, schemas) ==
    LET p == bb.catalog_db_schema_offset_prev + Len(schemas)
    IN  [bb EXCEPT
            !.catalog_db_schema_names = @ \o [n \in 1..Len(schemas) |-> schemas[n].name],
            !.catalog_db_schema_offset_prev = p,
            !.catalog_db_schema_offsets = Append(@, p)]

\* variant: a schema without tables gets no offset entry
ExtendTables_skipEmpty(bb, tables) ==
    LET p == bb.table_offset_prev + Len(tables)
    IN  IF tables = <<>> THEN bb
        ELSE [bb EXCEPT
                !.table_names = @ \o [n \in 1..Len(tables) |-> tables[n].name],
                !.table_offset_prev = p,
                !.table_offsets = Append(@, p),
                !.table_types = @ \o [n \in 1..Len(tables) |-> "default"]]

\* build: bookkeeping after the table rows of one schema were collected
ExtendTables(bb, tables) ==
    LET p == bb.table_offset_prev + Len(tables)
    IN  [bb EXCEPT
            !.table_names = @ \o [n \in 1..Len(tables) |-> tables[n].name],
            !.table_offset_prev = p,
            !.table_offsets = Append(@, p),
            !.table_types = @ \o [n \in 1..Len(tables) |-> "default"]]

\* variant: the rows of a table are put in front of those collected so far
ExtendColumns_front(bb, columns) ==
    LET p == bb.column_offset_prev + Len(columns)
    IN  [bb EXCEPT
            !.column_offset_prev = p,
            !.column_names = [n \in 1..Len(columns) |-> columns[n].name] \o @,
            !.column_types = [n \in 1..Len(columns) |-> columns[n].type] \o @,
            !.column_offsets = Append(@, p)]

\* variant: the offset is pushed before the running count is advanced
ExtendColumns_stale(bb, columns) ==
    LET p == bb.column_offset_prev + Len(columns)
    IN  [bb EXCEPT
            !.column_offset_prev = p,
            !.column_names = @ \o [n \in 1..Len(columns) |-> columns[n].name],
            !.column_types = @ \o [n \in 1..Len(columns) |-> columns[n].type],
            !.column_offsets = Append(@, bb.column_offset_prev)]

\* build: bookkeeping after the column rows of one table were collected
ExtendColumns(bb, columns) ==
    LET p == bb.column_offset_prev + Len(columns)
    IN  [bb EXCEPT
            !.column_offset_prev = p,
            !.column_names = @ \o [n \in 1..Len(columns) |-> columns[n].name],
            !.column_types = @ \o [n \in 1..Len(columns) |-> columns[n].type],
            !.column_offsets = Append(@, p)]

\* ------------------------------------------------------------------
\* Arrow arrays.  A constructor that panics yields Panic.
\* ------------------------------------------------------------------
Panic == [kind |-> "panic"]
IsPanic(a) == a.kind = "panic"

\* PrimitiveArray::new_null / StringArray::new_null: n null slots
new_null(n) == [i \in 1..n |-> None]

\* OffsetBuffer::new accepts a non-empty, non-negative, monotone buffer
OffsetBuffer_ok(offsets) ==
    /\ offsets # <<>>
    /\ offsets[1] >= 0
    /\ \A i \in 1..(Len(offsets) - 1) : offsets[i] <= offsets[i + 1]

\* ListArray::new(field, offsets, values, None): every list is valid; the
\* call panics when the last offset exceeds the length of the values
ListArray_new(offsets, values) ==
    IF IsPanic(values) THEN Panic
    ELSE IF ~OffsetBuffer_ok(offsets) THEN Panic
    ELSE IF offsets[Len(offsets)] > values.len THEN Panic
    ELSE [kind |-> "list", isnull |-> FALSE, len |-> Len(offsets) - 1,
          offsets |-> offsets, values |-> values]

\* ListArray::new_null(field, n): n null lists over an empty values array
ListArray_new_null(n, empty) ==
    [kind |-> "list", isnull |-> TRUE, len |-> n,
     offsets |-> [i \in 1..(n + 1) |-> 0], values |-> empty]

\* the descriptor fields of COLUMN_SCHEMA that build() fills with nulls
NullColumnFields ==
    {"ordinal_position", "remarks", "xdbc_data_type", "xdbc_column_size",
     "xdbc_decimal_digits", "xdbc_num_prec_radix", "xdbc_nullable",
     "xdbc_column_def", "xdbc_sql_data_type", "xdbc_datetime_sub",
     "xdbc_char_octet_length", "xdbc_is_nullable", "xdbc_scope_catalog",
     "xdbc_scope_schema", "xdbc_scope_table", "xdbc_is_autoincrement",
     "xdbc_is_generatedcolumn"}

\* StructArray::from panics unless all child arrays have one length
columns_struct_array(bb) ==
    IF Len(bb.column_types) # Len(bb.column_names) THEN Panic
    ELSE [kind |-> "struct", len |-> Len(bb.column_names),
          column_name |-> bb.column_names,
          xdbc_type_name |-> bb.column_types,
          nulls |-> [f \in NullColumnFields |-> new_null(Len(bb.column_names))]]

EmptyColumns == [kind |-> "struct", len |-> 0]
EmptyConstraints == [kind |-> "struct", len |-> 0]
EmptyTables == [kind |-> "struct", len |-> 0]
EmptyDbSchemas == [kind |-> "struct", len |-> 0]

\* variant: below depth Columns the column lists are empty instead of null
table_columns_array_emptyNotNull(bb, depth) ==
    IF depth \in {"Columns", "All"}
    THEN ListArray_new(bb.column_offsets, columns_struct_array(bb))
    ELSE [kind |-> "list", isnull |-> FALSE, len |-> Len(bb.table_names),
          offsets |-> [i \in 1..(Len(bb.table_names) + 1) |-> 0],
          values |-> columns_struct_array(bb)]

table_columns_array(bb, depth) ==
    IF depth \in {"Columns", "All"}
    THEN ListArray_new(bb.column_offsets, columns_struct_array(bb))
    ELSE ListArray_new_null(Len(bb.table_names), EmptyColumns)

table_constraints_array(bb) ==
    ListArray_new_null(Len(bb.table_names), EmptyConstraints)

tables_struct_array(bb, depth) ==
    LET cols == table_columns_array(bb, depth)
        cons == table_constraints_array(bb)
    IN  IF IsPanic(cols) THEN Panic
        ELSE IF {Len(bb.table_types), cols.len, cons.len} # {Len(bb.table_names)}
        THEN Panic
        ELSE [kind |-> "struct", len |-> Len(bb.table_names),
              table_name |-> bb.table_names,
              table_type |-> bb.table_types,
              table_columns |-> cols,
              table_constraints |-> cons]

\* variant: the null list is sized by the table rows, not the schema rows
db_schema_tables_array_tableLen(bb, depth) ==
    IF depth \in {"Tables", "Columns", "All"}
    THEN ListArray_new(bb.table_offsets, tables_struct_array(bb, depth))
    ELSE ListArray_new_null(Len(bb.table_names), EmptyTables)

db_schema_tables_array(bb, depth) ==
    IF depth \in {"Tables", "Columns", "All"}
    THEN ListArray_new(bb.table_offsets, tables_struct_array(bb, depth))
    ELSE ListArray_new_null(Len(bb.catalog_db_schema_names), EmptyTables)

db_schemas_array(bb, depth) ==
    LET tabs == db_schema_tables_array(bb, depth)
    IN  IF IsPanic(tabs) THEN Panic
        ELSE IF tabs.len # Len(bb.catalog_db_schema_names) THEN Panic
        ELSE [kind |-> "struct", len |-> Len(bb.catalog_db_schema_names),
              db_schema_name |-> bb.catalog_db_schema_names,
              db_schema_tables |-> tabs]

catalog_db_schemas_array(bb, depth) ==
    IF depth \in {"Columns", "Tables", "Schemas", "All"}
    THEN ListArray_new(bb.catalog_db_schema_offsets, db_schemas_array(bb, depth))
    ELSE ListArray_new_null(Len(bb.catalog_names), EmptyDbSchemas)

\* the tail of build(): the arrays, then RecordBatch::try_new, which
\* returns an error when its columns differ in length
Encode(bb, depth) ==
    LET schemas == catalog_db_schemas_array(bb, depth)
    IN  IF IsPanic(schemas) THEN Panic
        ELSE IF schemas.len # Len(bb.catalog_names)
        THEN [kind |-> "err", status |-> "Internal",
              message |-> "all columns in a record batch must have the same length"]
        ELSE [kind |-> "ok",
              batch |-> [catalog_name |-> bb.catalog_names,
                         catalog_db_schemas |-> schemas]]

\* ------------------------------------------------------------------
\* Inputs of get_objects
\* ------------------------------------------------------------------
Filters ==
    LET f(s, t, ty, c) == [catalog |-> None, db_schema |-> s, table_name |-> t,
                           table_type |-> ty, column_name |-> c]
    IN  {f(None, None, None, None),
         f(Some("s1"), None, None, None),
         f(None, Some("t1"), None, None),
         f(None, None, Some(<<"BASE TABLE">>), None),
         f(None, None, None, Some("c1")),
         f(Some("s2"), Some("t2"), Some(<<"BASE TABLE">>), Some("c1"))}

NoArgs == [depth |-> "Catalogs", catalog |-> None, db_schema |-> None,
           table_name |-> None, table_type |-> None, column_name |-> None]
NoLoc == [schemas |-> <<>>, si |-> 0, tables |-> <<>>, ti |-> 0]
NoResult == [kind |-> "none"]
NoQuery == [kind |-> "none"]

\* inputs of the metadata query builders
CatalogFilters == {None, Some("default"), Some("system")}
SchemaFilters == {None, Some("s1"), Some("s2")}
TableFilters == {None, Some("t1"), Some("t2")}
ColumnFilters == {None, Some("c1"), Some("c2")}
TableTypeFilters ==
    {None, Some(<<>>), Some(<<"BASE TABLE">>), Some(<<"VIEW">>),
     Some(<<"VIEW", "BASE TABLE">>), Some(<<"BASE TABLE", "VIEW">>)}

NoFilter == None

\* ------------------------------------------------------------------
\* The queries build() issues, one per block_on
\* ------------------------------------------------------------------
SchemaQuery(bb) ==
    [level |-> "schema", schema |-> "", table |-> "", pattern |-> bb.db_schema]
TableQuery(bb, schema) ==
    [level |-> "table", schema |-> schema.name, table |-> "", pattern |-> bb.table_name]
ColumnQuery(bb, schema, table) ==
    [level |-> "column", schema |-> schema.name, table |-> table.name,
     pattern |-> bb.column_name]

\* ------------------------------------------------------------------
\* Control flow of build(): where the walk goes next
\* ------------------------------------------------------------------
ToEncode == [to |-> "encode", si |-> 0, ti |-> 0]

\* variant: the schema level is skipped at depth Catalogs
AtStart_skipCatalogs(depth) ==
    IF depth # "Catalogs" THEN [to |-> "schemas", si |-> 0, ti |-> 0] ELSE ToEncode

\* if is_schema_required(depth) { ... }
AtStart(depth) ==
    IF is_schema_required(depth) THEN [to |-> "schemas", si |-> 0, ti |-> 0] ELSE ToEncode

\* for schema in schemas: the next schema after index si, or the end
NextSchema(si, schemas) ==
    IF si < Len(schemas) THEN [to |-> "tables", si |-> si + 1, ti |-> 0] ELSE ToEncode

\* variant: the table level is walked whatever the depth
AfterSchemas_ungated(depth, schemas) == NextSchema(0, schemas)

\* if is_table_required(depth) { for schema in schemas { ... } }
AfterSchemas(depth, schemas) ==
    IF is_table_required(depth) THEN NextSchema(0, schemas) ELSE ToEncode

\* for table in tables: the next table after index ti, or the next schema
NextTable(si, ti, schemas, tables) ==
    IF ti < Len(tables) THEN [to |-> "columns", si |-> si, ti |-> ti + 1]
    ELSE NextSchema(si, schemas)

\* variant: the column level is never walked
AfterTables_noColumns(depth, si, schemas, tables) == NextSchema(si, schemas)

\* if is_column_required(depth) { for table in tables { ... } }
AfterTables(depth, si, schemas, tables) ==
    IF is_column_required(depth) THEN NextTable(si, 0, schemas, tables)
    ELSE NextSchema(si, schemas)

\* leave the current block_on: issue the query of the next step, or encode
\* the record and return from get_objects
Goto(ctl, depth, bb, lg, schemas, tables) ==
    /\ b' = bb
    /\ loc' = [schemas |-> schemas, si |-> ctl.si, tables |-> tables, ti |-> ctl.ti]
    /\ IF ctl.to = "encode"
       THEN /\ pc' = "done"
            /\ result' = Encode(bb, depth)
            /\ inflight' = None
            /\ log' = lg
       ELSE LET qq == CASE ctl.to = "schemas" -> SchemaQuery(bb)
                        [] ctl.to = "tables" -> TableQuery(bb, schemas[ctl.si])
                        [] OTHER -> ColumnQuery(bb, schemas[ctl.si], tables[ctl.ti])
            IN  /\ pc' = ctl.to
                /\ result' = NoResult
                /\ inflight' = Some(qq)
                /\ log' = Append(lg, [ev |-> "issue", q |-> qq, n |-> 0, error |-> NoError])

\* The log is the trace of the executor calls of the current get_objects
\* call: one "issue" entry when a query is handed to the executor, then one
\* entry for its outcome ("ok" with the number of rows, or the failing
\* stage with the executor's error).

\* variant: the first failing query of a call is issued a second time
Fail_retry(context, stage, error) ==
    IF \E i \in 1..Len(log) : log[i].ev \in {"issue_err", "collect_err"}
    THEN /\ pc' = "done"
         /\ result' = from_clickhouse_error(context, error)
         /\ inflight' = None
         /\ log' = Append(log, [ev |-> stage, q |-> inflight[1], n |-> 0, error |-> error])
         /\ UNCHANGED <<readerVars, b, loc>>
    ELSE /\ log' = log \o <<[ev |-> stage, q |-> inflight[1], n |-> 0, error |-> error],
                            [ev |-> "issue", q |-> inflight[1], n |-> 0, error |-> NoError]>>
         /\ UNCHANGED <<readerVars, pc, result, inflight, b, loc>>

\* a block_on returns Err: the ? operator returns it from build() and
\* from get_objects
Fail(context, stage, error) ==
    /\ pc' = "done"
    /\ result' = from_clickhouse_error(context, error)
    /\ inflight' = None
    /\ log' = Append(log, [ev |-> stage, q |-> inflight[1], n |-> 0, error |-> error])
    /\ UNCHANGED <<readerVars, b, loc>>

\* the log entry of a query that returned rows
Completed(lg, rows) ==
    Append(lg, [ev |-> "ok", q |-> inflight[1], n |-> Len(rows), error |-> NoError])

\* ------------------------------------------------------------------
\* Actions
\* ------------------------------------------------------------------
\* ClickhouseConnection::get_objects up to its first block_on
get_objects(depth, f) ==
    /\ pc = "idle"
    /\ args' = [depth |-> depth, catalog |-> f.catalog, db_schema |-> f.db_schema,
                table_name |-> f.table_name, table_type |-> f.table_type,
                column_name |-> f.column_name]
    /\ Goto(AtStart(depth), depth,
            PushCatalog(GetObjectsBuilder_new(f.db_schema, f.table_name, f.column_name)),
            <<>>, <<>>, <<>>)
    /\ UNCHANGED <<readerVars, driverVars, infoVars, backend, prev, q>>

\* the schema query completes
SchemasOk ==
    /\ pc = "schemas"
    /\ LET schemas == fetch_schemas(backend, inflight[1].pattern)
       IN  Goto(AfterSchemas(args.depth, schemas), args.depth,
                ExtendSchemas(b, schemas), Completed(log, schemas), schemas, <<>>)
    /\ UNCHANGED <<readerVars, driverVars, infoVars, backend, args, prev, q>>

SchemasErr(stage, error) ==
    /\ pc = "schemas"
    /\ Fail("Failed to fetch schemas", stage, error)
    /\ UNCHANGED <<readerVars, driverVars, infoVars, backend, args, prev, q>>

\* the table query of schema loc.si completes
TablesOk ==
    /\ pc = "tables"
    /\ LET tables == fetch_schema_tables(backend, inflight[1].schema, inflight[1].pattern)
       IN  Goto(AfterTables(args.depth, loc.si, loc.schemas, tables), args.depth,
                ExtendTables(b, tables), Completed(log, tables), loc.schemas, tables)
    /\ UNCHANGED <<readerVars, driverVars, infoVars, backend, args, prev, q>>

TablesErr(stage, error) ==
    /\ pc = "tables"
    /\ Fail("Failed to fetch tables", stage, error)
    /\ UNCHANGED <<readerVars, driverVars, infoVars, backend, args, prev, q>>

\* the column query of table loc.ti of schema loc.si completes
ColumnsOk ==
    /\ pc = "columns"
    /\ LET columns == fetch_table_columns(backend, inflight[1].schema,
                                          inflight[1].table, inflight[1].pattern)
       IN  Goto(NextTable(loc.si, loc.ti, loc.schemas, loc.tables), args.depth,
                ExtendColumns(b, columns), Completed(log, columns), loc.schemas, loc.tables)
    /\ UNCHANGED <<readerVars, driverVars, infoVars, backend, args, prev, q>>

ColumnsErr(stage, error) ==
    /\ pc = "columns"
    /\ Fail("Failed to fetch columns", stage, error)
    /\ UNCHANGED <<readerVars, driverVars, infoVars, backend, args, prev, q>>

\* the caller drops the reader; the connection is ready for the next call
Drop ==
    /\ pc = "done"
    /\ pc' = "idle"
    /\ args' = NoArgs
    /\ b' = NoBuilder
    /\ loc' = NoLoc
    /\ inflight' = None
    /\ log' = <<>>
    /\ result' = NoResult
    /\ UNCHANGED <<readerVars, driverVars, infoVars, backend, prev, q>>

\* a caller that keeps the record of its first successful call and then
\* calls get_objects again with the same filters
Keep ==
    /\ pc = "done"
    /\ result.kind = "ok"
    /\ prev = None
    /\ prev' = Some([args |-> args, batch |-> result.batch])
    /\ pc' = "idle"
    /\ args' = NoArgs
    /\ b' = NoBuilder
    /\ loc' = NoLoc
    /\ inflight' = None
    /\ log' = <<>>
    /\ result' = NoResult
    /\ UNCHANGED <<readerVars, driverVars, infoVars, backend, q>>

get_objects_first(depth, f) ==
    /\ prev = None
    /\ get_objects(depth, f)

get_objects_again(depth) ==
    /\ is_some(prev)
    /\ get_objects(depth, [catalog |-> prev[1].args.catalog,
                           db_schema |-> prev[1].args.db_schema,
                           table_name |-> prev[1].args.table_name,
                           table_type |-> prev[1].args.table_type,
                           column_name |-> prev[1].args.column_name])

ErrStages == {"issue_err", "collect_err"}

\* ------------------------------------------------------------------
\* The driver's objects as constructed
\* ------------------------------------------------------------------
\* #[derive(Default)] ClickhouseDatabase
ClickhouseDatabase_default == [uri |-> None, username |-> None, password |-> None]

\* ClickhouseStatement::new
ClickhouseStatement_new ==
    [sql_query |-> None, bound_record_batch |-> None,
     bound_record_batch_reader |-> None, ingest_target_table |-> None]

\* GetInfoBuilder::new
GetInfoBuilder_new ==
    [name_builder |-> <<>>,
     type_id_vec |-> <<>>,
     offsets_vec |-> <<>>,
     string_array_builder |-> <<>>,
     string_offset |-> 0,
     bool_array_builder |-> <<>>,
     int64_array_builder |-> <<>>,
     int64_offset |-> 0,
     int32_array_builder |-> <<>>,
     list_string_array_builder |-> <<>>,
     map_builder |-> <<>>]

\* the version the connection falls back to
DEP_CLICKHOUSE_ARROW_VERSION == "DEP_CLICKHOUSE_ARROW_VERSION"

\* no reader has been constructed, no next call has been made
NoSource == [single |-> None, stream |-> None]
NoneYielded == [single |-> <<>>, stream |-> <<>>]

NoReturn == [op |-> "none", key |-> None, value |-> None, out |-> NoResult]

Init ==
    /\ backend \in Backends
    /\ pc = "idle"
    /\ args = NoArgs
    /\ b = NoBuilder
    /\ loc = NoLoc
    /\ inflight = None
    /\ log = <<>>
    /\ result = NoResult
    /\ prev = None
    /\ q = NoQuery
    /\ db = ClickhouseDatabase_default
    /\ clickhouse_version = DEP_CLICKHOUSE_ARROW_VERSION
    /\ stmt = ClickhouseStatement_new
    /\ sent = <<>>
    /\ ret = NoReturn
    /\ get_info_builder = None
    /\ info_calls = <<>>
    /\ info_codes = [asked |-> FALSE, codes |-> None]
    /\ info_batch = NoResult
    /\ single_reader = None
    /\ ch_reader = None
    /\ source = NoSource
    /\ yielded = NoneYielded

Next ==
    \/ \E depth \in Depths, f \in Filters : get_objects(depth, f)
    \/ SchemasOk
    \/ \E stage \in ErrStages, error \in ExecutorErrors : SchemasErr(stage, error)
    \/ TablesOk
    \/ \E stage \in ErrStages, error \in ExecutorErrors : TablesErr(stage, error)
    \/ ColumnsOk
    \/ \E stage \in ErrStages, error \in ExecutorErrors : ColumnsErr(stage, error)
    \/ Drop

Spec == Init /\ [][Next]_vars

\* two calls over one backend with the same filters
NextMono ==
    \/ \E depth \in Depths, f \in Filters : get_objects_first(depth, f)
    \/ \E depth \in Depths : get_objects_again(depth)
    \/ SchemasOk
    \/ \E stage \in ErrStages, error \in ExecutorErrors : SchemasErr(stage, error)
    \/ TablesOk
    \/ \E stage \in ErrStages, error \in ExecutorErrors : TablesErr(stage, error)
    \/ ColumnsOk
    \/ \E stage \in ErrStages, error \in ExecutorErrors : ColumnsErr(stage, error)
    \/ Keep
    \/ Drop

SpecMono == Init /\ [][NextMono]_vars

\* ------------------------------------------------------------------
\* The metadata query builders, called on their own over the backend
\* ------------------------------------------------------------------
call_fetch_min_schemas(c, s) ==
    /\ q = NoQuery
    /\ LET query == fetch_min_schemas(c, s)
       IN  q' = [kind |-> "schemas",
                 in |-> [catalog |-> c, schema |-> s, table |-> NoFilter,
                         table_type |-> NoFilter, column |-> NoFilter],
                 query |-> query,
                 rows |-> query_params(query, SchemataRows(backend))]
    /\ UNCHANGED <<readerVars, driverVars, infoVars, backend, pc, args, b, loc, inflight, log, result, prev>>

call_fetch_min_schema_tables(c, s, t, ty) ==
    /\ q = NoQuery
    /\ LET query == fetch_min_schema_tables(c, s, t, ty)
       IN  q' = [kind |-> "tables",
                 in |-> [catalog |-> c, schema |-> s, table |-> t,
                         table_type |-> ty, column |-> NoFilter],
                 query |-> query,
                 rows |-> query_params(query, TablesRows(backend))]
    /\ UNCHANGED <<readerVars, driverVars, infoVars, backend, pc, args, b, loc, inflight, log, result, prev>>

call_fetch_all(c, s, t, ty, col) ==
    /\ q = NoQuery
    /\ LET query == fetch_all(c, s, t, ty, col)
       IN  q' = [kind |-> "all",
                 in |-> [catalog |-> c, schema |-> s, table |-> t,
                         table_type |-> ty, column |-> col],
                 query |-> query,
                 rows |-> query_params(query, ColumnsRows(backend))]
    /\ UNCHANGED <<readerVars, driverVars, infoVars, backend, pc, args, b, loc, inflight, log, result, prev>>

\* the caller drops the response
drop_response ==
    /\ q # NoQuery
    /\ q' = NoQuery
    /\ UNCHANGED <<readerVars, driverVars, infoVars, backend, pc, args, b, loc, inflight, log, result, prev>>

NextPlan ==
    \/ \E c \in CatalogFilters, s \in SchemaFilters : call_fetch_min_schemas(c, s)
    \/ \E c \in CatalogFilters, s \in SchemaFilters, t \in TableFilters,
          ty \in TableTypeFilters : call_fetch_min_schema_tables(c, s, t, ty)
    \/ \E c \in CatalogFilters, s \in SchemaFilters, t \in TableFilters,
          ty \in TableTypeFilters, col \in ColumnFilters : call_fetch_all(c, s, t, ty, col)
    \/ drop_response

SpecPlan == Init /\ [][NextPlan]_vars

\* two builder calls one after the other; the caller keeps the first query
\* while the second is built.  The text of a query does not depend on the
\* backend, so one backend is explored.
keep_response ==
    /\ q # NoQuery
    /\ prev = None
    /\ prev' = Some(q)
    /\ q' = NoQuery
    /\ UNCHANGED <<readerVars, driverVars, infoVars, backend, pc, args, b, loc, inflight, log, result>>

InitText == Init /\ backend = MakeBackend(<<1>>, 0)

NextText ==
    \/ \E c \in CatalogFilters, s \in SchemaFilters : call_fetch_min_schemas(c, s)
    \/ \E c \in CatalogFilters, s \in SchemaFilters, t \in TableFilters,
          ty \in TableTypeFilters : call_fetch_min_schema_tables(c, s, t, ty)
    \/ \E c \in CatalogFilters, s \in SchemaFilters, t \in TableFilters,
          ty \in TableTypeFilters, col \in ColumnFilters : call_fetch_all(c, s, t, ty, col)
    \/ keep_response
    \/ drop_response

SpecText == InitText /\ [][NextText]_vars

\* ------------------------------------------------------------------
\* GetInfoBuilder (utils/get_info.rs) and ClickhouseConnection::get_info
\* ------------------------------------------------------------------
MaxCalls == 3

\* Into::<u32>::into(&InfoCode)
InfoCode_u32(code) ==
    CASE code = "VendorName" -> 0
      [] code = "VendorVersion" -> 1
      [] code = "VendorArrowVersion" -> 2
      [] code = "VendorSql" -> 3
      [] code = "DriverName" -> 100
      [] code = "DriverVersion" -> 101
      [] code = "DriverArrowVersion" -> 102
      [] code = "DriverAdbcVersion" -> 103

\* type ids of the info_value union of GET_INFO_SCHEMA, in field order:
\* string, bool, int64, int32 bitmask, string list, int32 to int32 list map
UnionTypeIds == 0..5

\* variant: the offset pushed is the row index
set_string_rowIndex(gib, code, string) ==
    [gib EXCEPT !.name_builder = Append(@, InfoCode_u32(code)),
                !.string_array_builder = Append(@, string),
                !.type_id_vec = Append(@, 0),
                !.offsets_vec = Append(@, Len(gib.type_id_vec)),
                !.string_offset = @ + 1]

set_string(gib, code, string) ==
    [gib EXCEPT !.name_builder = Append(@, InfoCode_u32(code)),
                !.string_array_builder = Append(@, string),
                !.type_id_vec = Append(@, 0),
                !.offsets_vec = Append(@, gib.string_offset),
                !.string_offset = @ + 1]

\* variant: the int64 offset counter is not advanced
set_number_staleOffset(gib, code, number) ==
    [gib EXCEPT !.name_builder = Append(@, InfoCode_u32(code)),
                !.int64_array_builder = Append(@, number),
                !.type_id_vec = Append(@, 2),
                !.offsets_vec = Append(@, gib.int64_offset)]

set_number(gib, code, number) ==
    [gib EXCEPT !.name_builder = Append(@, InfoCode_u32(code)),
                !.int64_array_builder = Append(@, number),
                !.type_id_vec = Append(@, 2),
                !.offsets_vec = Append(@, gib.int64_offset),
                !.int64_offset = @ + 1]

\* UnionArray::try_new for a dense union: every type id names a field, there
\* is one offset per type id, and each offset lies inside the child array
\* its type id selects
UnionArray_try_new(type_ids, offsets, children) ==
    IF /\ \A i \in 1..Len(type_ids) : type_ids[i] \in UnionTypeIds
       /\ Len(offsets) = Len(type_ids)
       /\ \A i \in 1..Len(type_ids) :
             offsets[i] >= 0 /\ offsets[i] < Len(children[type_ids[i] + 1])
    THEN [kind |-> "ok",
          array |-> [type_ids |-> type_ids, offsets |-> offsets, children |-> children]]
    ELSE [kind |-> "err", status |-> "Internal", message |-> "invalid union array"]

finish(gib) ==
    LET value_array ==
            UnionArray_try_new(gib.type_id_vec, gib.offsets_vec,
                <<gib.string_array_builder, gib.bool_array_builder,
                  gib.int64_array_builder, gib.int32_array_builder,
                  gib.list_string_array_builder, gib.map_builder>>)
    IN  IF value_array.kind = "err" THEN value_array
        ELSE IF Len(gib.name_builder) # Len(value_array.array.type_ids)
        THEN [kind |-> "err", status |-> "Internal",
              message |-> "all columns in a record batch must have the same length"]
        ELSE [kind |-> "ok",
              batch |-> [info_name |-> gib.name_builder,
                         info_value |-> value_array.array]]

\* one call on the builder
InfoCall(kind, code, value) == [kind |-> kind, code |-> code, value |-> value]

Apply(gib, call) ==
    IF call.kind = "set_string" THEN set_string(gib, call.code, call.value)
    ELSE set_number(gib, call.code, call.value)

RECURSIVE ApplyAll(_, _)
ApplyAll(gib, cs) ==
    IF cs = <<>> THEN gib ELSE ApplyAll(Apply(gib, Head(cs)), Tail(cs))

INFO_FIELDS == {"VendorName", "VendorVersion", "DriverName", "DriverVersion",
                "DriverArrowVersion", "DriverAdbcVersion"}

\* AdbcVersion::V110 as c_int as i64
ADBC_VERSION_1_1_0 == 1001000

\* the match of get_info's for_each: the builder call made for code f
get_info_match(f, version) ==
    CASE f = "VendorName" -> <<InfoCall("set_string", f, "Clickhouse")>>
      [] f = "VendorVersion" -> <<InfoCall("set_string", f, version)>>
      [] f = "DriverName" -> <<InfoCall("set_string", f, "ADBC Clickhouse Driver - Rust")>>
      [] f = "DriverVersion" -> <<InfoCall("set_string", f, "CARGO_PKG_VERSION")>>
      [] f = "DriverArrowVersion" -> <<InfoCall("set_string", f, "DEP_ARROW_ARRAY_VERSION")>>
      [] f = "DriverAdbcVersion" -> <<InfoCall("set_number", f, ADBC_VERSION_1_1_0)>>
      [] OTHER -> <<>>

\* the orders in which a HashSet may be iterated
RECURSIVE Orders(_)
Orders(S) ==
    IF S = {} THEN {<<>>}
    ELSE UNION {{<<x>> \o o : o \in Orders(S \ {x})} : x \in S}

\* variant: an absent code set is taken as the empty set
get_info_codes_noDefault(cs) == unwrap_or(cs, {}) \cap INFO_FIELDS

\* codes.unwrap_or_else(|| INFO_FIELDS.clone()).intersection(&INFO_FIELDS)
get_info_codes(cs) == unwrap_or(cs, INFO_FIELDS) \cap INFO_FIELDS

\* inputs
BuilderCodes == {"VendorName", "DriverName", "DriverAdbcVersion", "VendorArrowVersion"}
StringValues == {"Vendor", ""}
NumberValues == {110, -1}
RequestCodes == INFO_FIELDS \cup {"VendorArrowVersion", "VendorSql"}
CodeSets == {None} \cup {Some(S) : S \in SUBSET RequestCodes}

NotAsked == [asked |-> FALSE, codes |-> None]

\* GetInfoBuilder::new()
call_new ==
    /\ get_info_builder = None
    /\ info_batch = NoResult
    /\ get_info_builder' = Some(GetInfoBuilder_new)
    /\ info_calls' = <<>>
    /\ info_codes' = NotAsked
    /\ info_batch' = NoResult
    /\ UNCHANGED <<readerVars, objVars, driverVars>>

call_set_string(code, string) ==
    /\ is_some(get_info_builder)
    /\ Len(info_calls) < MaxCalls
    /\ get_info_builder' = Some(set_string(get_info_builder[1], code, string))
    /\ info_calls' = Append(info_calls, InfoCall("set_string", code, string))
    /\ UNCHANGED <<readerVars, objVars, driverVars, info_codes, info_batch>>

call_set_number(code, number) ==
    /\ is_some(get_info_builder)
    /\ Len(info_calls) < MaxCalls
    /\ get_info_builder' = Some(set_number(get_info_builder[1], code, number))
    /\ info_calls' = Append(info_calls, InfoCall("set_number", code, number))
    /\ UNCHANGED <<readerVars, objVars, driverVars, info_codes, info_batch>>

\* finish(mut self) consumes the builder
call_finish ==
    /\ is_some(get_info_builder)
    /\ info_batch' = finish(get_info_builder[1])
    /\ get_info_builder' = None
    /\ UNCHANGED <<readerVars, objVars, driverVars, info_calls, info_codes>>

\* ClickhouseConnection::get_info: a builder of its own, one call per code
\* of the intersection in the set's iteration order, then finish
get_info(cs, order) ==
    /\ get_info_builder = None
    /\ info_batch = NoResult
    /\ Len(order) = Cardinality(get_info_codes(cs))
    /\ {order[i] : i \in 1..Len(order)} = get_info_codes(cs)
    /\ LET made == Flatten([i \in 1..Len(order) |->
                              get_info_match(order[i], clickhouse_version)])
       IN  /\ info_calls' = made
           /\ info_batch' = finish(ApplyAll(GetInfoBuilder_new, made))
    /\ info_codes' = [asked |-> TRUE, codes |-> cs]
    /\ UNCHANGED <<readerVars, objVars, driverVars, get_info_builder>>

\* the caller drops the record
drop_info ==
    /\ info_batch # NoResult
    /\ get_info_builder' = None
    /\ info_calls' = <<>>
    /\ info_codes' = NotAsked
    /\ info_batch' = NoResult
    /\ UNCHANGED <<readerVars, objVars, driverVars>>

NextInfo ==
    \/ call_new
    \/ \E code \in BuilderCodes, string \in StringValues : call_set_string(code, string)
    \/ \E code \in BuilderCodes, number \in NumberValues : call_set_number(code, number)
    \/ call_finish
    \/ \E cs \in CodeSets : \E order \in Orders(get_info_codes(cs)) : get_info(cs, order)
    \/ drop_info

InitInfo == Init /\ backend = MakeBackend(<<1>>, 0)

SpecInfo == InitInfo /\ [][NextInfo]_vars

\* ------------------------------------------------------------------
\* Errors and results of the driver's calls
\* ------------------------------------------------------------------
\* Error::with_message_and_status
Error_with_message_and_status(message, status) ==
    [kind |-> "err", status |-> status, message |-> message]

Ok(value) == [kind |-> "ok", value |-> value]

\* todo!() unwinds out of the call
Panicked == [kind |-> "panic"]

\* what a driver call returned: the call, its key and value if it has
\* them, and the outcome
Return(op, key, value, out) == [op |-> op, key |-> key, value |-> value, out |-> out]

\* one executor call made by a driver call, with the error it returned
Sent(cmd, arg, error) == [cmd |-> cmd, arg |-> arg, error |-> error]

\* ------------------------------------------------------------------
\* Options (adbc_core::options)
\* ------------------------------------------------------------------
\* OptionValue
StringValue(v) == [type |-> "String", v |-> v]
OptionValues == {StringValue("a"), StringValue("b"),
                 [type |-> "Int", v |-> "1"], [type |-> "Bytes", v |-> "0x00"]}

\* a key of OptionDatabase, OptionConnection or OptionStatement
Key(k) == [k |-> k, name |-> ""]
Other(name) == [k |-> "Other", name |-> name]

\* the {key:?} of the messages
Debug(key) == IF key.k = "Other" THEN "Other(\"" \o key.name \o "\")" ELSE key.k

Unrecognized(key) ==
    Error_with_message_and_status("[Clickhouse] Unrecognized option: " \o Debug(key),
                                  "NotFound")

DatabaseKeys == {Key("Uri"), Key("Username"), Key("Password"), Other("x")}
ConnectionKeys == {Key("AutoCommit"), Key("CurrentCatalog"), Other("x")}
Getters == {"get_option_string", "get_option_bytes", "get_option_int", "get_option_double"}

\* ------------------------------------------------------------------
\* ClickhouseDatabase (database.rs)
\* ------------------------------------------------------------------
\* ClickhouseDatabase::set_option: the database after the call and what
\* the call returns
database_set_option(d, key, value) ==
    IF value.type # "String"
    THEN [db |-> d,
          out |-> Error_with_message_and_status(
                      "[Clickhouse] Value is not a string, key: " \o Debug(key),
                      "InvalidArguments")]
    ELSE CASE key.k = "Uri" -> [db |-> [d EXCEPT !.uri = Some(value.v)], out |-> Ok("()")]
           [] key.k = "Username" -> [db |-> [d EXCEPT !.username = Some(value.v)], out |-> Ok("()")]
           [] key.k = "Password" -> [db |-> [d EXCEPT !.password = Some(value.v)], out |-> Ok("()")]
           [] key.k = "Other" -> [db |-> d, out |-> Panicked]
           [] OTHER -> [db |-> d, out |-> Unrecognized(key)]

\* variant: the Password key reads the username
database_get_option_string_userForPassword(d, key) ==
    CASE key.k = "Uri" /\ is_some(d.uri) -> Ok(d.uri[1])
      [] key.k = "Username" /\ is_some(d.username) -> Ok(d.username[1])
      [] key.k = "Password" /\ is_some(d.username) -> Ok(d.username[1])
      [] OTHER -> Unrecognized(key)

database_get_option_string(d, key) ==
    CASE key.k = "Uri" /\ is_some(d.uri) -> Ok(d.uri[1])
      [] key.k = "Username" /\ is_some(d.username) -> Ok(d.username[1])
      [] key.k = "Password" /\ is_some(d.password) -> Ok(d.password[1])
      [] OTHER -> Unrecognized(key)

\* get_option_bytes, get_option_int, get_option_double
database_get_option(getter, d, key) ==
    IF getter = "get_option_string" THEN database_get_option_string(d, key)
    ELSE Unrecognized(key)

\* ------------------------------------------------------------------
\* ClickhouseConnection (connection.rs): options, cancel, get_table_schema
\* ------------------------------------------------------------------
connection_set_option(key, value) == Unrecognized(key)

connection_get_option(getter, key) == Unrecognized(key)

connection_cancel ==
    Error_with_message_and_status("[Clickhouse] Cancel not implemented", "Internal")

\* get_statistic_names, get_statistics, commit, rollback, read_partition
connection_not_implemented(op) ==
    Error_with_message_and_status(
        CASE op = "get_statistic_names" -> "GetStatisticNames not implemented"
          [] op = "get_statistics" -> "GetStatistics is not implemented"
          [] op = "commit" -> "Commit is not implemented"
          [] op = "rollback" -> "Rollback is not implemented"
          [] op = "read_partition" -> "ReadPartition is not implemented",
        "NotImplemented")

ConnectionNotImplemented ==
    {"get_statistic_names", "get_statistics", "commit", "rollback", "read_partition"}

\* the names of the schemas fetch_schema returns for the table asked for:
\* that of the table of this name in the database, if the backend has it
fetch_schema(be, db_schema, table_name) ==
    LET database == unwrap_or(db_schema, "default")
        rows == TablesRows(be)
    IN  {rows[i].table_name : i \in {n \in 1..Len(rows) :
                                        /\ rows[n].table_schema = database
                                        /\ rows[n].table_name = table_name}}

\* ClickhouseConnection::get_table_schema; outcome is the executor's error,
\* NoError when the fetch succeeds
get_table_schema(be, db_schema, table_name, outcome) ==
    IF outcome # NoError
    THEN from_clickhouse_error("Failed to fetch table schema", outcome)
    ELSE IF table_name \in fetch_schema(be, db_schema, table_name)
    THEN Ok(table_name)
    ELSE Error_with_message_and_status("Failed to get schema for " \o table_name, "Internal")

\* ------------------------------------------------------------------
\* ClickhouseDatabase::new_connection and ClickhouseConnection::new
\* ------------------------------------------------------------------
\* what fetch_version returns
Fetched(version) == [kind |-> "ok", value |-> version, error |-> NoError]
FetchFailed(error) == [kind |-> "err", value |-> None, error |-> error]

\* rt.block_on(fetch_version()).ok().flatten().unwrap_or(DEP_CLICKHOUSE_ARROW_VERSION)
ClickhouseConnection_new(fetched) ==
    unwrap_or(IF fetched.kind = "ok" THEN fetched.value ELSE None,
              DEP_CLICKHOUSE_ARROW_VERSION)

\* the error of a version request as the executor log records it
FetchError(fetched) == IF fetched.kind = "err" THEN Some(fetched.error) ELSE None

\* the environment of one new_connection call: whether the runtime can be
\* built, the error of each client build (NoError when it succeeds) and the
\* answer to the version request
ConnectOutcomes ==
    {[rt |-> rt, arrow |-> a, native |-> n, version |-> v] :
        rt \in {"ok", "no threads"},
        a \in ExecutorErrors \cup {NoError},
        n \in ExecutorErrors \cup {NoError},
        v \in {Fetched(Some("24.8")), Fetched(None)}
                \cup {FetchFailed(e) : e \in ExecutorErrors}}

\* ClickhouseDatabase::new_connection: the executor calls made, what is
\* returned, and the version of the connection when one is returned
new_connection(d, o) ==
    IF o.rt # "ok"
    THEN [sent |-> <<>>,
          out |-> Error_with_message_and_status(
                      "[Clickhouse] Failed to create tokio runtime: " \o o.rt, "Internal"),
          version |-> None]
    ELSE IF o.arrow # NoError
    THEN [sent |-> <<Sent("build_arrow", d, Some(o.arrow))>>,
          out |-> from_clickhouse_error(
                      "[Clickhouse] Failed to create arrow clickhouse client", o.arrow),
          version |-> None]
    ELSE IF o.native # NoError
    THEN [sent |-> <<Sent("build_arrow", d, None), Sent("build_native", d, Some(o.native))>>,
          out |-> from_clickhouse_error(
                      "[Clickhouse] Failed to create native clickhouse client", o.native),
          version |-> None]
    ELSE [sent |-> <<Sent("build_arrow", d, None), Sent("build_native", d, None),
                     Sent("fetch_version", d, FetchError(o.version))>>,
          out |-> Ok("connection"),
          version |-> Some(ClickhouseConnection_new(o.version))]

\* ------------------------------------------------------------------
\* Calls on the database and on the connection
\* ------------------------------------------------------------------
Database_set_option(key, value) ==
    /\ LET r == database_set_option(db, key, value)
       IN  /\ db' = r.db
           /\ ret' = Return("database.set_option", Some(key), Some(value), r.out)
    /\ sent' = <<>>
    /\ UNCHANGED <<readerVars, objVars, infoVars, clickhouse_version, stmt>>

Database_get_option(getter, key) ==
    /\ ret' = Return("database." \o getter, Some(key), None,
                     database_get_option(getter, db, key))
    /\ sent' = <<>>
    /\ UNCHANGED <<readerVars, objVars, infoVars, db, clickhouse_version, stmt>>

Database_new_connection(o) ==
    /\ LET r == new_connection(db, o)
       IN  /\ sent' = r.sent
           /\ ret' = Return("database.new_connection", None, None, r.out)
           /\ clickhouse_version' = unwrap_or(r.version, clickhouse_version)
    /\ UNCHANGED <<readerVars, objVars, infoVars, db, stmt>>

Connection_set_option(key, value) ==
    /\ ret' = Return("connection.set_option", Some(key), Some(value),
                     connection_set_option(key, value))
    /\ sent' = <<>>
    /\ UNCHANGED <<readerVars, objVars, infoVars, db, clickhouse_version, stmt>>

Connection_get_option(getter, key) ==
    /\ ret' = Return("connection." \o getter, Some(key), None,
                     connection_get_option(getter, key))
    /\ sent' = <<>>
    /\ UNCHANGED <<readerVars, objVars, infoVars, db, clickhouse_version, stmt>>

Connection_cancel ==
    /\ ret' = Return("connection.cancel", None, None, connection_cancel)
    /\ sent' = <<>>
    /\ UNCHANGED <<readerVars, objVars, infoVars, db, clickhouse_version, stmt>>

Connection_get_table_schema(db_schema, table_name, outcome) ==
    /\ ret' = Return("connection.get_table_schema", None, None,
                     get_table_schema(backend, db_schema, table_name, outcome))
    /\ sent' = <<Sent("fetch_schema", table_name,
                      IF outcome = NoError THEN None ELSE Some(outcome))>>
    /\ UNCHANGED <<readerVars, objVars, infoVars, db, clickhouse_version, stmt>>

Connection_not_implemented(op) ==
    /\ ret' = Return("connection." \o op, None, None, connection_not_implemented(op))
    /\ sent' = <<>>
    /\ UNCHANGED <<readerVars, objVars, infoVars, db, clickhouse_version, stmt>>

NextDb ==
    \/ \E key \in DatabaseKeys, value \in OptionValues : Database_set_option(key, value)
    \/ \E getter \in Getters, key \in DatabaseKeys : Database_get_option(getter, key)
    \/ \E o \in ConnectOutcomes : Database_new_connection(o)
    \/ \E key \in ConnectionKeys, value \in OptionValues : Connection_set_option(key, value)
    \/ \E getter \in Getters, key \in ConnectionKeys : Connection_get_option(getter, key)
    \/ Connection_cancel
    \/ \E op \in ConnectionNotImplemented : Connection_not_implemented(op)
    \/ \E db_schema \in SchemaFilters, table_name \in {"t1", "t3"},
          outcome \in ExecutorErrors \cup {NoError} :
            Connection_get_table_schema(db_schema, table_name, outcome)

InitDb == Init /\ backend = MakeBackend(<<1>>, 0)

SpecDb == InitDb /\ [][NextDb]_vars

\* ------------------------------------------------------------------
\* ClickhouseStatement (statement.rs)
\* ------------------------------------------------------------------
MaxStream == 2

ADBC_INGEST_OPTION_TARGET_TABLE == "adbc.ingest.target_table"

\* OptionStatement::as_ref
as_ref(key) ==
    CASE key.k = "TargetTable" -> "adbc.ingest.target_table"
      [] key.k = "IngestMode" -> "adbc.ingest.mode"
      [] key.k = "Incremental" -> "adbc.statement.exec.incremental"
      [] key.k = "Progress" -> "adbc.statement.exec.progress"
      [] key.k = "MaxProgress" -> "adbc.statement.exec.max_progress"
      [] OTHER -> key.name

StatementKeys == {Key("TargetTable"), Key("IngestMode"), Other("x"),
                  Other("adbc.ingest.target_table")}

\* variant: the target table takes a value of any type
statement_set_option_anyType(st, key, value) ==
    IF as_ref(key) = ADBC_INGEST_OPTION_TARGET_TABLE
    THEN [stmt |-> [st EXCEPT !.ingest_target_table = Some(value.v)], out |-> Ok("()")]
    ELSE [stmt |-> st, out |-> Unrecognized(key)]

statement_set_option(st, key, value) ==
    IF as_ref(key) = ADBC_INGEST_OPTION_TARGET_TABLE
    THEN IF value.type = "String"
         THEN [stmt |-> [st EXCEPT !.ingest_target_table = Some(value.v)], out |-> Ok("()")]
         ELSE [stmt |-> st,
               out |-> Error_with_message_and_status(
                           "[Clickhouse] IngestOptionTargetTable value must be of type String",
                           "InvalidArguments")]
    ELSE [stmt |-> st, out |-> Unrecognized(key)]

statement_get_option_string(st, key) ==
    IF as_ref(key) = ADBC_INGEST_OPTION_TARGET_TABLE
    THEN IF is_some(st.ingest_target_table)
         THEN Ok(st.ingest_target_table[1])
         ELSE Error_with_message_and_status(
                  "[Clickhouse] " \o Debug(key) \o " has not been set", "NotFound")
    ELSE Unrecognized(key)

\* get_option_bytes, get_option_int, get_option_double
statement_get_option(getter, st, key) ==
    IF getter = "get_option_string" THEN statement_get_option_string(st, key)
    ELSE Unrecognized(key)

bind(st, record_batch) == [st EXCEPT !.bound_record_batch = Some(record_batch)]

bind_stream(st, reader) == [st EXCEPT !.bound_record_batch_reader = Some(reader)]

\* variant: a query that is set is not replaced
set_sql_query_keepFirst(st, query) ==
    IF is_some(st.sql_query) THEN st ELSE [st EXCEPT !.sql_query = Some(query)]

set_sql_query(st, query) == [st EXCEPT !.sql_query = Some(query)]

\* execute_schema, execute_partitions, get_parameter_schema, prepare,
\* set_substrait_plan, cancel
statement_not_implemented(op) ==
    Error_with_message_and_status(
        CASE op = "execute_schema" -> "[Clickhouse] ExecuteSchema not implemented"
          [] op = "execute_partitions" -> "[Clickhouse] ExecutePartitions not implemented"
          [] op = "get_parameter_schema" -> "[Clickhouse] GetParameterSchema not implemented"
          [] op = "prepare" -> "[Clickhouse] Prepare not implemented"
          [] op = "set_substrait_plan" -> "[Clickhouse] SetSubstraitPlan not implemented"
          [] op = "cancel" -> "[Clickhouse] Cancel not implemented",
        "NotImplemented")

StatementNotImplemented ==
    {"execute_schema", "execute_partitions", "get_parameter_schema", "prepare",
     "set_substrait_plan", "cancel"}

\* the error of an executor call that may fail with outcome
ErrorOf(outcome) == IF outcome = NoError THEN None ELSE Some(outcome)

\* variant: without a query, an empty query is sent
execute_emptyQuery(st, outcome) ==
    LET query == unwrap_or(st.sql_query, "")
    IN  [sent |-> <<Sent("query", query, ErrorOf(outcome))>>,
         out |-> IF outcome = NoError THEN Ok("reader")
                 ELSE from_clickhouse_error("Failed to execute query", outcome)]

\* ClickhouseStatement::execute: the executor calls made and what is
\* returned; outcome is the error of conn.query, NoError when it succeeds
execute(st, outcome) ==
    IF is_some(st.sql_query)
    THEN [sent |-> <<Sent("query", st.sql_query[1], ErrorOf(outcome))>>,
          out |-> IF outcome = NoError THEN Ok("reader")
                  ELSE from_clickhouse_error("Failed to execute query", outcome)]
    ELSE [sent |-> <<>>,
          out |-> Error_with_message_and_status("[Clickhouse] SQL query is empty",
                                                "InvalidState")]

\* the items of a bound stream: a record batch or an error of the reader
Item(record_batch) == [kind |-> "batch", v |-> record_batch]
ItemError == [kind |-> "err", v |-> "bad batch"]

Insert(target_table, record_batch, error) ==
    Sent("insert", [query |-> "INSERT INTO " \o target_table \o " FORMAT Native",
                    batch |-> record_batch], error)

\* the environment of one execute_update call: the executor call, counted
\* from 1, that fails, and its error; 0 when none fails
Failing(o, n) == IF o.fail_at = n THEN Some(o.error) ELSE None

\* variant: a batch that is an error is skipped and the loop goes on
RECURSIVE insert_stream_skipBad(_, _, _, _)
insert_stream_skipBad(items, target_table, o, done) ==
    IF items = <<>> THEN [sent |-> done, out |-> Ok("Some(0)")]
    ELSE IF Head(items).kind = "err"
    THEN insert_stream_skipBad(Tail(items), target_table, o, done)
    ELSE LET error == Failing(o, Len(done) + 1)
             now == Append(done, Insert(target_table, Head(items).v, error))
         IN  IF is_some(error)
             THEN [sent |-> now,
                   out |-> from_clickhouse_error("Failed to execute update", error[1])]
             ELSE insert_stream_skipBad(Tail(items), target_table, o, now)

\* for batch in reader { let record_batch = batch?; conn.insert(..)?; }
RECURSIVE insert_stream(_, _, _, _)
insert_stream(items, target_table, o, done) ==
    IF items = <<>> THEN [sent |-> done, out |-> Ok("Some(0)")]
    ELSE IF Head(items).kind = "err"
    THEN [sent |-> done,
          out |-> Error_with_message_and_status(Head(items).v, "Internal")]
    ELSE LET error == Failing(o, Len(done) + 1)
             now == Append(done, Insert(target_table, Head(items).v, error))
         IN  IF is_some(error)
             THEN [sent |-> now,
                   out |-> from_clickhouse_error("Failed to execute update", error[1])]
             ELSE insert_stream(Tail(items), target_table, o, now)

\* ClickhouseStatement::execute_update: the statement after the call, the
\* executor calls made and what is returned.  The conditions of the else-if
\* chain are evaluated in order, and each take() empties its field when it
\* is evaluated, whether or not the target table is set.
execute_update(st, o) ==
    IF is_some(st.sql_query)
    THEN LET error == Failing(o, 1)
         IN  [stmt |-> st,
              sent |-> <<Sent("execute", st.sql_query[1], error)>>,
              out |-> IF is_some(error)
                      THEN from_clickhouse_error("Failed to execute update", error[1])
                      ELSE Ok("Some(0)")]
    ELSE LET taken == [st EXCEPT !.bound_record_batch = None]
         IN  IF is_some(st.bound_record_batch) /\ is_some(st.ingest_target_table)
             THEN LET error == Failing(o, 1)
                  IN  [stmt |-> taken,
                       sent |-> <<Insert(st.ingest_target_table[1],
                                         st.bound_record_batch[1], error)>>,
                       out |-> IF is_some(error)
                               THEN from_clickhouse_error("Failed to execute update", error[1])
                               ELSE Ok("Some(0)")]
             ELSE LET taken2 == [taken EXCEPT !.bound_record_batch_reader = None]
                  IN  IF is_some(st.bound_record_batch_reader)
                            /\ is_some(st.ingest_target_table)
                      THEN LET r == insert_stream(st.bound_record_batch_reader[1],
                                                  st.ingest_target_table[1], o, <<>>)
                           IN  [stmt |-> taken2, sent |-> r.sent, out |-> r.out]
                      ELSE [stmt |-> taken2, sent |-> <<>>, out |-> Ok("Some(0)")]

\* inputs
Queries == {"SELECT 1", "INSERT 2"}
RecordBatches == {"b1", "b2"}
Readers == BSeq({Item(rb) : rb \in RecordBatches} \cup {ItemError}, MaxStream)
UpdateOutcomes ==
    {[fail_at |-> 0, error |-> NoError]}
        \cup {[fail_at |-> n, error |-> e] : n \in 1..MaxStream, e \in ExecutorErrors}

\* ------------------------------------------------------------------
\* Calls on the statement
\* ------------------------------------------------------------------
Statement_set_option(key, value) ==
    /\ LET r == statement_set_option(stmt, key, value)
       IN  /\ stmt' = r.stmt
           /\ ret' = Return("statement.set_option", Some(key), Some(value), r.out)
    /\ sent' = <<>>
    /\ UNCHANGED <<readerVars, objVars, infoVars, db, clickhouse_version>>

Statement_get_option(getter, key) ==
    /\ ret' = Return("statement." \o getter, Some(key), None,
                     statement_get_option(getter, stmt, key))
    /\ sent' = <<>>
    /\ UNCHANGED <<readerVars, objVars, infoVars, db, clickhouse_version, stmt>>

Statement_bind(record_batch) ==
    /\ stmt' = bind(stmt, record_batch)
    /\ ret' = Return("statement.bind", None, None, Ok("()"))
    /\ sent' = <<>>
    /\ UNCHANGED <<readerVars, objVars, infoVars, db, clickhouse_version>>

Statement_bind_stream(reader) ==
    /\ stmt' = bind_stream(stmt, reader)
    /\ ret' = Return("statement.bind_stream", None, None, Ok("()"))
    /\ sent' = <<>>
    /\ UNCHANGED <<readerVars, objVars, infoVars, db, clickhouse_version>>

Statement_set_sql_query(query) ==
    /\ stmt' = set_sql_query(stmt, query)
    /\ ret' = Return("statement.set_sql_query", None, Some(query), Ok("()"))
    /\ sent' = <<>>
    /\ UNCHANGED <<readerVars, objVars, infoVars, db, clickhouse_version>>

Statement_execute(outcome) ==
    /\ LET r == execute(stmt, outcome)
       IN  /\ sent' = r.sent
           /\ ret' = Return("statement.execute", None, None, r.out)
    /\ UNCHANGED <<readerVars, objVars, infoVars, db, clickhouse_version, stmt>>

Statement_execute_update(o) ==
    /\ LET r == execute_update(stmt, o)
       IN  /\ stmt' = r.stmt
           /\ sent' = r.sent
           /\ ret' = Return("statement.execute_update", None, None, r.out)
    /\ UNCHANGED <<readerVars, objVars, infoVars, db, clickhouse_version>>

Statement_not_implemented(op) ==
    /\ ret' = Return("statement." \o op, None, None, statement_not_implemented(op))
    /\ sent' = <<>>
    /\ UNCHANGED <<readerVars, objVars, infoVars, db, clickhouse_version, stmt>>

NextStmt ==
    \/ \E key \in StatementKeys, value \in OptionValues : Statement_set_option(key, value)
    \/ \E getter \in Getters, key \in StatementKeys : Statement_get_option(getter, key)
    \/ \E record_batch \in RecordBatches : Statement_bind(record_batch)
    \/ \E reader \in Readers : Statement_bind_stream(reader)
    \/ \E query \in Queries : Statement_set_sql_query(query)
    \/ \E outcome \in ExecutorErrors \cup {NoError} : Statement_execute(outcome)
    \/ \E o \in UpdateOutcomes : Statement_execute_update(o)
    \/ \E op \in StatementNotImplemented : Statement_not_implemented(op)

InitStmt == Init /\ backend = MakeBackend(<<1>>, 0)

SpecStmt == InitStmt /\ [][NextStmt]_vars

\* ------------------------------------------------------------------
\* The options of the database and of the statement together
\* ------------------------------------------------------------------
NextOpt ==
    \/ \E key \in DatabaseKeys, value \in OptionValues : Database_set_option(key, value)
    \/ \E getter \in Getters, key \in DatabaseKeys : Database_get_option(getter, key)
    \/ \E key \in StatementKeys, value \in OptionValues : Statement_set_option(key, value)
    \/ \E getter \in Getters, key \in StatementKeys : Statement_get_option(getter, key)

InitOpt == Init /\ backend = MakeBackend(<<1>>, 0)

SpecOpt == InitOpt /\ [][NextOpt]_vars

\* ------------------------------------------------------------------
\* SingleBatchReader and ClickhouseReader (reader.rs)
\* ------------------------------------------------------------------
\* RecordBatch::schema
Schema(batch) == "schema of " \o batch

\* the items of a response stream: a record batch or an error of the client
ResponseError == [kind |-> "err", v |-> "protocol"]
Responses == BSeq({Item(rb) : rb \in RecordBatches} \cup {ResponseError}, MaxStream)

\* ArrowError::ExternalError(Box::new(err))
ExternalError(err) == "ExternalError(" \o err \o ")"

\* stream.peekable(): no item is buffered
peekable(stream) == [peeked |-> None, stream |-> stream]

\* Peekable::peek: the first pending item is taken from the stream into the
\* buffer, unless one is buffered or the stream has ended
peek(p) ==
    IF is_some(p.peeked) \/ p.stream = <<>> THEN p
    ELSE [peeked |-> Some(Head(p.stream)), stream |-> Tail(p.stream)]

\* variant: the buffered item is thrown away, the stream continues after it
Peekable_next_dropPeeked(p) ==
    IF p.stream = <<>> THEN [peekable |-> [p EXCEPT !.peeked = None], item |-> None]
    ELSE [peekable |-> [peeked |-> None, stream |-> Tail(p.stream)],
          item |-> Some(Head(p.stream))]

\* Peekable::next: the buffered item if there is one, else the next item of
\* the stream, else None
Peekable_next(p) ==
    IF is_some(p.peeked) THEN [peekable |-> [p EXCEPT !.peeked = None], item |-> p.peeked]
    ELSE IF p.stream = <<>> THEN [peekable |-> p, item |-> None]
    ELSE [peekable |-> [p EXCEPT !.stream = Tail(@)], item |-> Some(Head(p.stream))]

SingleBatchReader_new(batch) ==
    /\ single_reader = None
    /\ single_reader' = Some([batch |-> Some(batch), schema |-> Schema(batch)])
    /\ source' = [source EXCEPT !.single = Some(batch)]
    /\ yielded' = [yielded EXCEPT !.single = <<>>]
    /\ ret' = Return("SingleBatchReader.new", None, None, Ok("reader"))
    /\ sent' = <<>>
    /\ UNCHANGED <<objVars, infoVars, db, clickhouse_version, stmt, ch_reader>>

\* variant: the batch is cloned, not taken
SingleBatchReader_next_noTake ==
    /\ is_some(single_reader)
    /\ Len(yielded.single) < MaxCalls
    /\ LET item == IF is_some(single_reader[1].batch)
                   THEN Some(Item(single_reader[1].batch[1])) ELSE None
       IN  /\ yielded' = [yielded EXCEPT !.single = Append(@, item)]
           /\ ret' = Return("SingleBatchReader.next", None, None, Ok(item))
    /\ sent' = <<>>
    /\ UNCHANGED <<objVars, infoVars, db, clickhouse_version, stmt, single_reader,
                   ch_reader, source>>

\* Ok(self.batch.take()).transpose()
SingleBatchReader_next ==
    /\ is_some(single_reader)
    /\ Len(yielded.single) < MaxCalls
    /\ LET item == IF is_some(single_reader[1].batch)
                   THEN Some(Item(single_reader[1].batch[1])) ELSE None
       IN  /\ single_reader' = Some([single_reader[1] EXCEPT !.batch = None])
           /\ yielded' = [yielded EXCEPT !.single = Append(@, item)]
           /\ ret' = Return("SingleBatchReader.next", None, None, Ok(item))
    /\ sent' = <<>>
    /\ UNCHANGED <<objVars, infoVars, db, clickhouse_version, stmt, ch_reader, source>>

SingleBatchReader_schema ==
    /\ is_some(single_reader)
    /\ ret' = Return("SingleBatchReader.schema", None, None, Ok(single_reader[1].schema))
    /\ sent' = <<>>
    /\ UNCHANGED <<objVars, infoVars, readerVars, db, clickhouse_version, stmt>>

\* ClickhouseReader::new: the first item is peeked; the schema is that of
\* the first item when it is a batch, None when the stream is empty or its
\* first item is an error
ClickhouseReader_new(stream) ==
    /\ ch_reader = None
    /\ LET p == peek(peekable(stream))
           schema == IF is_some(p.peeked) /\ p.peeked[1].kind = "batch"
                     THEN Some(Schema(p.peeked[1].v)) ELSE None
       IN  ch_reader' = Some([stream |-> p, schema |-> schema])
    /\ source' = [source EXCEPT !.stream = Some(stream)]
    /\ yielded' = [yielded EXCEPT !.stream = <<>>]
    /\ ret' = Return("ClickhouseReader.new", None, None, Ok("reader"))
    /\ sent' = <<>>
    /\ UNCHANGED <<objVars, infoVars, db, clickhouse_version, stmt, single_reader>>

\* let next = block_on(self.stream.next())?; Some(next.map_err(ExternalError))
ClickhouseReader_next ==
    /\ is_some(ch_reader)
    /\ Len(yielded.stream) < MaxCalls
    /\ LET r == Peekable_next(ch_reader[1].stream)
           item == IF r.item = None THEN None
                   ELSE IF r.item[1].kind = "err"
                   THEN Some([kind |-> "err", v |-> ExternalError(r.item[1].v)])
                   ELSE r.item
       IN  /\ ch_reader' = Some([ch_reader[1] EXCEPT !.stream = r.peekable])
           /\ yielded' = [yielded EXCEPT !.stream = Append(@, item)]
           /\ ret' = Return("ClickhouseReader.next", None, None, Ok(item))
    /\ sent' = <<>>
    /\ UNCHANGED <<objVars, infoVars, db, clickhouse_version, stmt, single_reader, source>>

\* self.schema.clone().expect("failed to fetch schema")
ClickhouseReader_schema ==
    /\ is_some(ch_reader)
    /\ ret' = Return("ClickhouseReader.schema", None, None,
                     IF is_some(ch_reader[1].schema) THEN Ok(ch_reader[1].schema[1])
                     ELSE Panicked)
    /\ sent' = <<>>
    /\ UNCHANGED <<objVars, infoVars, readerVars, db, clickhouse_version, stmt>>

\* the caller drops the readers
drop_readers ==
    /\ is_some(single_reader) \/ is_some(ch_reader)
    /\ single_reader' = None
    /\ ch_reader' = None
    /\ source' = NoSource
    /\ yielded' = NoneYielded
    /\ ret' = NoReturn
    /\ sent' = <<>>
    /\ UNCHANGED <<objVars, infoVars, db, clickhouse_version, stmt>>

NextReader ==
    \/ \E batch \in RecordBatches : SingleBatchReader_new(batch)
    \/ SingleBatchReader_next
    \/ SingleBatchReader_schema
    \/ \E stream \in Responses : ClickhouseReader_new(stream)
    \/ ClickhouseReader_next
    \/ ClickhouseReader_schema
    \/ drop_readers

InitReader == Init /\ backend = MakeBackend(<<1>>, 0)

SpecReader == InitReader /\ [][NextReader]_vars

\* ------------------------------------------------------------------
\* Reading the outcome of a call
\* ------------------------------------------------------------------
DepthSchemas == {"Schemas", "Tables", "Columns", "All"}
DepthTables == {"Tables", "Columns", "All"}
DepthColumns == {"Columns", "All"}

Finished == pc = "done"
QueryFailed == log # <<>> /\ log[Len(log)].ev \in ErrStages
Returned == Finished /\ ~QueryFailed

SchemasList == result.batch.catalog_db_schemas
DbSchemasRows == SchemasList.values
TablesList == DbSchemasRows.db_schema_tables
TablesRowsOut == TablesList.values
ColumnsList == TablesRowsOut.table_columns
ColumnsRowsOut == ColumnsList.values
ConstraintsList == TablesRowsOut.table_constraints

Issued(level) == SelectSeq(log, LAMBDA e : e.ev = "issue" /\ e.q.level = level)
Answered(level) == SelectSeq(log, LAMBDA e : e.ev = "ok" /\ e.q.level = level)

WellFormedList(list, parents) ==
    /\ ~list.isnull
    /\ list.offsets[1] = 0
    /\ Len(list.offsets) = parents + 1
    /\ \A i \in 1..(Len(list.offsets) - 1) : list.offsets[i] <= list.offsets[i + 1]
    /\ list.offsets[Len(list.offsets)] = list.values.len

NullList(list, parents) ==
    /\ list.isnull
    /\ list.len = parents

\* C1: whenever get_objects returns without a query failure it returns a
\* record, and every list column built from an offset buffer for the
\* requested depth has offsets that start at 0, count parent rows + 1,
\* never decrease, and end at the length of the flattened child array.
C1_OffsetsWellFormed ==
    Returned =>
        /\ result.kind = "ok"
        /\ args.depth \in DepthSchemas =>
              WellFormedList(SchemasList, Len(result.batch.catalog_name))
        /\ args.depth \in DepthTables =>
              WellFormedList(TablesList, DbSchemasRows.len)
        /\ args.depth \in DepthColumns =>
              WellFormedList(ColumnsList, TablesRowsOut.len)

\* a full-depth record with two schemas, two or more tables, a column
C1_Witness ==
    /\ Returned
    /\ result.kind = "ok"
    /\ args.depth = "Columns"
    /\ DbSchemasRows.len = 2
    /\ TablesRowsOut.len >= 2
    /\ ColumnsRowsOut.len >= 1
    /\ \E t \in 1..TablesRowsOut.len : ColumnsList.offsets[t] = ColumnsList.offsets[t + 1]

C2_WitnessNoSchema ==
    /\ Returned
    /\ result.kind = "ok"
    /\ args.depth = "Schemas"
    /\ Answered("schema")[1].n = 0
    /\ SchemasList.offsets = <<0, 0>>

\* C3: a list level the depth does not require is a null list with one null
\* entry per parent row: catalog_db_schemas at Catalogs, db_schema_tables at
\* Schemas, table_columns at Tables, table_constraints wherever there are
\* table rows.
C3_UnrequiredLevelsNull ==
    Returned =>
        /\ result.kind = "ok"
        /\ args.depth = "Catalogs" =>
              NullList(SchemasList, Len(result.batch.catalog_name))
        /\ args.depth = "Schemas" =>
              /\ ~SchemasList.isnull
              /\ DbSchemasRows.len = Answered("schema")[1].n
              /\ NullList(TablesList, DbSchemasRows.len)
        /\ args.depth = "Tables" =>
              /\ ~TablesList.isnull
              /\ NullList(ColumnsList, TablesRowsOut.len)
        /\ args.depth \in DepthTables =>
              NullList(ConstraintsList, TablesRowsOut.len)

\* depth Schemas over two schemas: two null table lists
C3_Witness ==
    /\ Returned
    /\ result.kind = "ok"
    /\ args.depth = "Schemas"
    /\ DbSchemasRows.len = 2
    /\ TablesList.isnull

\* depth Tables over two or more tables: null column lists
C3_WitnessTables ==
    /\ Returned
    /\ result.kind = "ok"
    /\ args.depth = "Tables"
    /\ TablesRowsOut.len >= 2
    /\ ColumnsList.isnull

\* C4: no column-level query at depth Catalogs, Schemas or Tables, and no
\* table-level query at depth Catalogs or Schemas.
C4_NoQueryBelowDepth ==
    /\ args.depth \in {"Catalogs", "Schemas", "Tables"} => Issued("column") = <<>>
    /\ args.depth \in {"Catalogs", "Schemas"} => Issued("table") = <<>>

\* a call at depth Tables that found a table which has a column
C4_Witness ==
    /\ Returned
    /\ args.depth = "Tables"
    /\ Len(Issued("table")) >= 1
    /\ \E i \in 1..Len(backend) : \E j \in 1..Len(backend[i]) :
          /\ backend[i][j] > 0
          /\ \E t \in 1..Len(b.table_names) : b.table_names[t] = TableName(j)

\* C5: a call at depth Catalogs or Schemas that has ended issued exactly one
\* schema-level query and no table-level or column-level query.
C5_OneSchemaQuery ==
    Finished /\ args.depth \in {"Catalogs", "Schemas"} =>
        /\ Len(Issued("schema")) = 1
        /\ Issued("table") = <<>>
        /\ Issued("column") = <<>>

\* a call at depth Schemas that found a schema which has a table
C5_Witness ==
    /\ Returned
    /\ args.depth = "Schemas"
    /\ Len(b.catalog_db_schema_names) >= 1
    /\ \E i \in 1..Len(backend) :
          /\ backend[i] # <<>>
          /\ \E s \in 1..Len(b.catalog_db_schema_names) :
                b.catalog_db_schema_names[s] = SchemaName(i)

\* a call at depth Catalogs that has ended
C5_WitnessCatalogs ==
    /\ Returned
    /\ args.depth = "Catalogs"
    /\ backend # <<>>

\* ------------------------------------------------------------------
\* Decoding a record through its offset buffers and validity
\* ------------------------------------------------------------------
ColumnItems(list, t) ==
    IF list.isnull THEN None
    ELSE Some([k \in 1..(list.offsets[t + 1] - list.offsets[t]) |->
            LET r == list.offsets[t] + k
            IN  [column_name |-> list.values.column_name[r],
                 xdbc_type_name |-> list.values.xdbc_type_name[r]]])

TableItems(list, s) ==
    IF list.isnull THEN None
    ELSE Some([k \in 1..(list.offsets[s + 1] - list.offsets[s]) |->
            LET r == list.offsets[s] + k
            IN  [table_name |-> list.values.table_name[r],
                 table_type |-> list.values.table_type[r],
                 table_columns |-> ColumnItems(list.values.table_columns, r),
                 table_constraints |->
                     IF list.values.table_constraints.isnull THEN None ELSE Some(<<>>)]])

SchemaItems(list, c) ==
    IF list.isnull THEN None
    ELSE Some([k \in 1..(list.offsets[c + 1] - list.offsets[c]) |->
            LET r == list.offsets[c] + k
            IN  [db_schema_name |-> list.values.db_schema_name[r],
                 db_schema_tables |-> TableItems(list.values.db_schema_tables, r)]])

Decode(batch) ==
    [c \in 1..Len(batch.catalog_name) |->
        [catalog_name |-> batch.catalog_name[c],
         catalog_db_schemas |-> SchemaItems(batch.catalog_db_schemas, c)]]

Rank(depth) ==
    CASE depth = "Catalogs" -> 0
      [] depth = "Schemas" -> 1
      [] depth = "Tables" -> 2
      [] OTHER -> 3

\* the decoded record with every list level below depth replaced by null
ForceNull(tree, depth) ==
    LET table(t) == [t EXCEPT !.table_columns = IF Rank(depth) < 3 THEN None ELSE @]
        schema(sc) ==
            [sc EXCEPT !.db_schema_tables =
                IF Rank(depth) < 2 \/ @ = None THEN None
                ELSE Some([k \in 1..Len(@[1]) |-> table(@[1][k])])]
        catalog(c) ==
            [c EXCEPT !.catalog_db_schemas =
                IF Rank(depth) < 1 \/ @ = None THEN None
                ELSE Some([k \in 1..Len(@[1]) |-> schema(@[1][k])])]
    IN  [c \in 1..Len(tree) |-> catalog(tree[c])]

SameFilters(a1, a2) ==
    /\ a1.catalog = a2.catalog
    /\ a1.db_schema = a2.db_schema
    /\ a1.table_name = a2.table_name
    /\ a1.table_type = a2.table_type
    /\ a1.column_name = a2.column_name

\* C6: over one backend and with the same filters, the record of a call at
\* depth D1 equals the record of a call at a greater depth D2 (All counted
\* as Columns) once every list level below D1 is replaced by a null list.
C6_DepthMonotone ==
    /\ Returned
    /\ result.kind = "ok"
    /\ is_some(prev)
    /\ SameFilters(prev[1].args, args)
    /\ Rank(prev[1].args.depth) < Rank(args.depth)
    => Decode(prev[1].batch) = ForceNull(Decode(result.batch), prev[1].args.depth)

\* a record of depth Tables followed by one of depth Columns with columns
C6_Witness ==
    /\ Returned
    /\ result.kind = "ok"
    /\ is_some(prev)
    /\ SameFilters(prev[1].args, args)
    /\ prev[1].args.depth = "Tables"
    /\ args.depth = "Columns"
    /\ TablesRowsOut.len >= 2
    /\ ColumnsRowsOut.len >= 1

ContextOf(level) ==
    CASE level = "schema" -> "Failed to fetch schemas"
      [] level = "table" -> "Failed to fetch tables"
      [] OTHER -> "Failed to fetch columns"

\* C7: a query that fails, on issue or while its rows are collected, ends
\* the call: its entry is the last of the call's trace, nothing is in
\* flight, the query was issued once, and the call returns the executor's
\* error and no record.
C7_FailureAborts ==
    \A i \in 1..Len(log) :
        log[i].ev \in ErrStages =>
            /\ i = Len(log)
            /\ pc = "done"
            /\ inflight = None
            /\ Len(SelectSeq(log, LAMBDA e : e.ev = "issue" /\ e.q = log[i].q)) = 1
            /\ result.kind = "err"
            /\ result.status = (IF log[i].error.io THEN "IO" ELSE "Internal")
            /\ result.message =
                  "[Clickhouse] " \o ContextOf(log[i].q.level) \o ": " \o log[i].error.text

\* the table query of the first of two schemas failed while collecting
C7_Witness ==
    /\ pc = "done"
    /\ QueryFailed
    /\ log[Len(log)].ev = "collect_err"
    /\ log[Len(log)].q.level = "table"
    /\ Len(loc.schemas) = 2
    /\ loc.si = 1
    /\ result.kind = "err"

\* number of entries before position p of the trace that satisfy the test
CountBefore(p, Test(_)) == Len(SelectSeq(SubSeq(log, 1, p - 1), Test))

IsIssue(level, e) == e.ev = "issue" /\ e.q.level = level
IsOk(level, e) == e.ev = "ok" /\ e.q.level = level

\* C8: queries run one at a time, each answered before the next is issued;
\* when the table query of the i-th schema is issued, exactly the column
\* queries of the tables of schemas 1..i-1 have been issued and all of them
\* have completed; a call at depth Columns that returns issued 1 schema
\* query, one table query per fetched schema and one column query per
\* fetched table, in the order of the record's rows.
C8_SequentialDepthFirst ==
    /\ \A p \in 1..Len(log) :
          log[p].ev = "issue" =>
              IF p = Len(log) THEN inflight = Some(log[p].q)
              ELSE log[p + 1].ev # "issue" /\ log[p + 1].q = log[p].q
    /\ \A p \in 1..Len(log) :
          args.depth \in DepthColumns /\ IsIssue("table", log[p]) =>
              LET i == 1 + CountBefore(p, LAMBDA e : IsIssue("table", e))
              IN  /\ CountBefore(p, LAMBDA e : IsIssue("column", e)) = b.table_offsets[i]
                  /\ CountBefore(p, LAMBDA e : IsOk("column", e)) = b.table_offsets[i]
    /\ Returned /\ args.depth \in DepthColumns =>
          /\ result.kind = "ok"
          /\ Len(Issued("schema")) = 1
          /\ Len(Issued("table")) = DbSchemasRows.len
          /\ Len(Issued("column")) = TablesRowsOut.len
          /\ \A i \in 1..DbSchemasRows.len :
                Issued("table")[i].q.schema = DbSchemasRows.db_schema_name[i]
          /\ \A t \in 1..TablesRowsOut.len :
                Issued("column")[t].q.table = TablesRowsOut.table_name[t]

\* a full-depth call over two schemas that both have tables
C8_Witness ==
    /\ Returned
    /\ result.kind = "ok"
    /\ args.depth = "Columns"
    /\ DbSchemasRows.len = 2
    /\ TablesList.offsets[2] >= 1
    /\ TablesList.offsets[3] > TablesList.offsets[2]
    /\ Len(Issued("column")) = TablesRowsOut.len

\* the type the backend records for the table of that name
BackendTypeOf(name) ==
    TableType(CHOOSE j \in 1..MaxTables : TableName(j) = name)

Elements(seq) == {seq[i] : i \in 1..Len(seq)}

\* C9: with a table-type filter supplied at depth Columns, every table of
\* the result has a type in the filter set, and with the filter
\* <<"BASE TABLE">> no table whose backend type is VIEW is in the result.
C9_TableTypeFilterHonoured ==
    /\ Returned
    /\ result.kind = "ok"
    /\ args.depth \in DepthColumns
    /\ is_some(args.table_type)
    => \A t \in 1..TablesRowsOut.len :
          /\ TablesRowsOut.table_type[t] \in Elements(args.table_type[1])
          /\ args.table_type[1] = <<"BASE TABLE">> =>
                BackendTypeOf(TablesRowsOut.table_name[t]) # "VIEW"

\* the rows a supplied LIKE filter admits; an absent filter admits all
Admits(filter, value) == ~is_some(filter) \/ Like(value, filter[1])

\* C10 as stated: a query built from an explicitly empty table-type set
\* matches no row.
C10_EmptyTypeSetMatchesNothing ==
    q.kind \in {"tables", "all"} /\ q.in.table_type = Some(<<>>) => q.rows = <<>>

\* C10 as amended: an explicitly empty table-type set adds no predicate and
\* no parameter; the query returns every row of the view that the other
\* supplied filters admit.
C10_EmptyTypeSetIsNoFilter ==
    q.kind \in {"tables", "all"} /\ q.in.table_type = Some(<<>>) =>
        /\ \A i \in 1..Len(q.query.pred) : q.query.pred[i].field # "table_type"
        /\ IF q.query.pred = <<>> THEN q.query.params = None
           ELSE /\ is_some(q.query.params)
                /\ Len(q.query.params[1]) = Len(q.query.pred)
                /\ \A i \in 1..Len(q.query.params[1]) :
                      q.query.params[1][i][1] \in
                          {"catalog_filter", "schema_filter", "table_filter", "column_filter"}
        /\ LET view == IF q.kind = "tables" THEN TablesRows(backend)
                       ELSE ColumnsRows(backend)
               ok(r) == /\ Admits(q.in.catalog, r.table_catalog)
                        /\ Admits(q.in.schema, r.table_schema)
                        /\ Admits(q.in.table, r.table_name)
                        /\ q.kind = "all" => Admits(q.in.column, r.column_name)
           IN  q.rows = SelectSeq(view, ok)

\* the table-level query built from the empty set and a table filter
\* returns a table of the backend
C10_Witness ==
    /\ q.kind = "tables"
    /\ q.in.table_type = Some(<<>>)
    /\ is_some(q.in.table)
    /\ Len(q.rows) >= 1
    /\ Len(q.rows) < Len(TablesRows(backend))

\* the filter of the call that stands behind the pattern of a query
FilterOf(level) ==
    CASE level = "schema" -> args.db_schema
      [] level = "table" -> args.table_name
      [] level = "column" -> args.column_name

\* C11: a metadata query carries a filter pattern only when the caller
\* supplied that filter, and then it is the supplied value: an absent
\* filter is not replaced by a wildcard pattern.
C11_PredicateIffSupplied ==
    \A i \in 1..Len(log) :
        log[i].ev = "issue" =>
            /\ is_some(FilterOf(log[i].q.level))
            /\ log[i].q.pattern = FilterOf(log[i].q.level)[1]

\* two inputs supply the same set of filters and as many table types
SameShape(i1, i2) ==
    /\ is_some(i1.catalog) = is_some(i2.catalog)
    /\ is_some(i1.schema) = is_some(i2.schema)
    /\ is_some(i1.table) = is_some(i2.table)
    /\ is_some(i1.column) = is_some(i2.column)
    /\ is_some(i1.table_type) = is_some(i2.table_type)
    /\ is_some(i1.table_type) => Len(i1.table_type[1]) = Len(i2.table_type[1])

\* the placeholders of a query text, in text order
Placeholders(query) == Flatten([i \in 1..Len(query.pred) |-> query.pred[i].names])

\* the parameters bound to a query
Bound(query) == IF is_some(query.params) THEN query.params[1] ELSE <<>>

LikeNames == {"catalog_filter", "schema_filter", "table_filter", "column_filter"}

\* the number of places of text s at which p occurs
Occurrences(s, p) ==
    Cardinality({i \in 1..(Len(s) - Len(p) + 1) : SubSeq(s, i, i + Len(p) - 1) = p})

\* C12: the text of a metadata query depends on which filters are supplied
\* and on the number of table types only, never on their values: two calls
\* of one builder with inputs of the same shape build the same text; every
\* supplied value is bound as a parameter; each placeholder of the text has
\* exactly one parameter of its name and each parameter has a placeholder;
\* the table types are bound one per element, in order, under pairwise
\* distinct names; no bound value occurs in the text, and the placeholder of
\* each parameter occurs in it once.
C12_TextIndependentOfValues ==
    /\ is_some(prev) /\ q # NoQuery /\ prev[1].kind = q.kind
            /\ SameShape(prev[1].in, q.in)
        => prev[1].query.sql = q.query.sql
    /\ q # NoQuery =>
        LET ph == Placeholders(q.query)
            params == Bound(q.query)
            types == SelectSeq(params, LAMBDA p : p[1] \notin LikeNames)
            bound(name, f) == is_some(f) => \E j \in 1..Len(params) : params[j] = <<name, f[1]>>
        IN  /\ \A i \in 1..Len(ph) :
                  Cardinality({j \in 1..Len(params) : params[j][1] = ph[i]}) = 1
            /\ \A j \in 1..Len(params) : \E i \in 1..Len(ph) : ph[i] = params[j][1]
            /\ Len(ph) = Len(params)
            /\ bound("catalog_filter", q.in.catalog)
            /\ bound("schema_filter", q.in.schema)
            /\ bound("table_filter", q.in.table)
            /\ bound("column_filter", q.in.column)
            /\ is_some(q.in.table_type) =>
                  /\ Len(types) = Len(q.in.table_type[1])
                  /\ \A i \in 1..Len(types) : types[i][2] = q.in.table_type[1][i]
                  /\ \A i, j \in 1..Len(types) : i # j => types[i][1] # types[j][1]
    /\ prev = None /\ q # NoQuery =>
        LET params == Bound(q.query)
        IN  \A j \in 1..Len(params) :
                /\ Occurrences(q.query.sql, params[j][2]) = 0
                /\ Occurrences(q.query.sql, "{" \o params[j][1] \o ":String}") = 1

\* two column-level queries with all five filters supplied, two table
\* types each, and no value in common position by position
C12_Witness ==
    /\ is_some(prev) /\ q # NoQuery
    /\ prev[1].kind = "all" /\ q.kind = "all"
    /\ SameShape(prev[1].in, q.in)
    /\ is_some(q.in.catalog) /\ q.in.catalog # prev[1].in.catalog
    /\ is_some(q.in.schema) /\ q.in.schema # prev[1].in.schema
    /\ is_some(q.in.table) /\ q.in.table # prev[1].in.table
    /\ is_some(q.in.column) /\ q.in.column # prev[1].in.column
    /\ q.in.table_type = Some(<<"VIEW", "BASE TABLE">>)
    /\ prev[1].in.table_type = Some(<<"BASE TABLE", "VIEW">>)
    /\ Len(q.query.params[1]) = 6

\* ------------------------------------------------------------------
\* The info encoder
\* ------------------------------------------------------------------
UniqueCodes(cs) == \A i, j \in 1..Len(cs) : i # j => cs[i].code # cs[j].code

\* C13: after finish, the record has one row per call in call order; row i
\* carries the code of call i, its type id is 0 for set_string and 2 for
\* set_number, and the child array that type id selects holds the value of
\* call i at the row's offset.  No call gives a record of no rows.
C13_InfoRoundTrip ==
    info_batch # NoResult /\ UniqueCodes(info_calls) =>
        /\ info_batch.kind = "ok"
        /\ LET names == info_batch.batch.info_name
               u == info_batch.batch.info_value
           IN  /\ Len(names) = Len(info_calls)
               /\ Len(u.type_ids) = Len(info_calls)
               /\ Len(u.offsets) = Len(info_calls)
               /\ \A i \in 1..Len(info_calls) :
                     /\ names[i] = InfoCode_u32(info_calls[i].code)
                     /\ u.type_ids[i] = (IF info_calls[i].kind = "set_string" THEN 0 ELSE 2)
                     /\ u.children[u.type_ids[i] + 1][u.offsets[i] + 1] = info_calls[i].value

\* a number, a string and a second, different number were set and encoded
C13_Witness ==
    /\ info_batch.kind = "ok"
    /\ ~info_codes.asked
    /\ Len(info_calls) = 3
    /\ UniqueCodes(info_calls)
    /\ info_calls[1].kind = "set_number"
    /\ info_calls[2].kind = "set_string"
    /\ info_calls[3].kind = "set_number"
    /\ info_calls[1].value # info_calls[3].value

\* finish right after new
C13_WitnessEmpty ==
    /\ info_batch.kind = "ok"
    /\ ~info_codes.asked
    /\ info_calls = <<>>
    /\ info_batch.batch.info_name = <<>>

\* C14: in a builder, the offset recorded for each entry is the number of
\* earlier entries of the same variant, and the offset counter of each
\* variant is the number of values in that variant's array.
C14_OffsetsPerVariant ==
    is_some(get_info_builder) =>
        LET g == get_info_builder[1]
            earlier(i) == Cardinality({j \in 1..(i - 1) : g.type_id_vec[j] = g.type_id_vec[i]})
            made(kind) == Len(SelectSeq(info_calls, LAMBDA c : c.kind = kind))
        IN  /\ Len(g.type_id_vec) = Len(info_calls)
            /\ Len(g.offsets_vec) = Len(info_calls)
            /\ \A i \in 1..Len(g.offsets_vec) : g.offsets_vec[i] = earlier(i)
            /\ g.string_offset = Len(g.string_array_builder)
            /\ g.int64_offset = Len(g.int64_array_builder)
            /\ Len(g.string_array_builder) = made("set_string")
            /\ Len(g.int64_array_builder) = made("set_number")

\* a string, a number and a string: the second string is row 2 and has
\* offset 1
C14_Witness ==
    /\ is_some(get_info_builder)
    /\ Len(info_calls) = 3
    /\ info_calls[1].kind = "set_string"
    /\ info_calls[2].kind = "set_number"
    /\ info_calls[3].kind = "set_string"
    /\ get_info_builder[1].offsets_vec = <<0, 0, 1>>

\* the codes the driver answers
SupportedCodes ==
    {"VendorName", "VendorVersion", "DriverName", "DriverVersion",
     "DriverArrowVersion", "DriverAdbcVersion"}

\* C15: get_info returns a record whose codes are pairwise distinct and are
\* the requested codes among the six the driver supports; a requested code
\* outside the six gives no row and no error; an absent code set gives all
\* six.
C15_GetInfoCodes ==
    info_codes.asked =>
        /\ info_batch.kind = "ok"
        /\ LET names == info_batch.batch.info_name
               wanted == IF is_some(info_codes.codes)
                         THEN info_codes.codes[1] \cap SupportedCodes
                         ELSE SupportedCodes
           IN  /\ \A i, j \in 1..Len(names) : i # j => names[i] # names[j]
               /\ {names[i] : i \in 1..Len(names)} = {InfoCode_u32(c) : c \in wanted}
               /\ Len(names) = Cardinality(wanted)

\* two supported and two unsupported codes were requested
C15_Witness ==
    /\ info_codes.asked
    /\ info_codes.codes = Some({"VendorVersion", "DriverAdbcVersion",
                                "VendorArrowVersion", "VendorSql"})
    /\ info_batch.kind = "ok"
    /\ Len(info_batch.batch.info_name) = 2

\* no code set was given
C15_WitnessAll ==
    /\ info_codes.asked
    /\ info_codes.codes = None
    /\ info_batch.kind = "ok"
    /\ Len(info_batch.batch.info_name) = 6

\* ------------------------------------------------------------------
\* Errors of the driver's calls
\* ------------------------------------------------------------------
ReturnedError == ret.out.kind = "err"

\* C16: when an executor call made by a driver call fails, the driver call
\* returns an error, of status IO for a transport error and of status
\* Internal for any other error; it does not return a success.
C16_ExecutorErrorSurfaced ==
    \A i \in 1..Len(sent) :
        is_some(sent[i].error) =>
            /\ ReturnedError
            /\ ret.out.status = (IF sent[i].error[1].io THEN "IO" ELSE "Internal")

DriverTag == "[Clickhouse]"

StartsWith(s, p) == Len(s) >= Len(p) /\ SubSeq(s, 1, Len(p)) = p

\* C17: the message of every returned error of status Internal begins with
\* the driver tag, holds the tag once, and goes on with a context string.
C17_InternalTagged ==
    ReturnedError /\ ret.out.status = "Internal" =>
        /\ StartsWith(ret.out.message, DriverTag \o " ")
        /\ Occurrences(ret.out.message, DriverTag) = 1
        /\ Len(ret.out.message) > Len(DriverTag \o " ")

SetOptionCalls == {"database.set_option", "connection.set_option", "statement.set_option"}
GetOptionCalls == {o \o "." \o g : o \in {"database", "connection", "statement"}, g \in Getters}

\* the string form of the statement key of the ingest target table
TargetTableName == "adbc.ingest.target_table"

\* the key of a call is one its object stores a value for
SupportedKey(op, key) ==
    \/ StartsWith(op, "database.") /\ key.k \in {"Uri", "Username", "Password"}
    \/ StartsWith(op, "statement.")
          /\ (key.k = "TargetTable" \/ (key.k = "Other" /\ key.name = TargetTableName))

\* C20: a set_option call with a String value, or a get_option call, whose
\* key its object does not support returns an error of status NotFound; it
\* does not panic.
C20_UnsupportedKeyNotFound ==
    /\ ret.op \in SetOptionCalls \cup GetOptionCalls
    /\ ~SupportedKey(ret.op, ret.key[1])
    /\ ret.op \in SetOptionCalls => ret.value[1].type = "String"
    => ReturnedError /\ ret.out.status = "NotFound"

\* ------------------------------------------------------------------
\* The statement
\* ------------------------------------------------------------------
\* C18: a statement has a SQL query only once set_sql_query has been called
\* on it; execute on a statement that has none returns an error of status
\* InvalidState, makes no executor call, and leaves the statement as it
\* was.
C18_ExecuteWithoutQuery ==
    [][/\ stmt.sql_query = None /\ is_some(stmt'.sql_query) =>
            ret'.op = "statement.set_sql_query"
       /\ ret'.op = "statement.execute" /\ stmt.sql_query = None =>
            /\ ret'.out.kind = "err"
            /\ ret'.out.status = "InvalidState"
            /\ sent' = <<>>
            /\ stmt' = stmt]_vars

\* execute was refused on a statement with a batch, a stream and a target
\* table but no query
C18_Witness ==
    /\ ret.op = "statement.execute"
    /\ ret.out.kind = "err"
    /\ ret.out.status = "InvalidState"
    /\ stmt.sql_query = None
    /\ is_some(stmt.bound_record_batch)
    /\ is_some(stmt.bound_record_batch_reader)
    /\ is_some(stmt.ingest_target_table)

\* the statement has what execute_update needs: a SQL query, or a target
\* table together with a bound batch or a bound stream
HasSetup(st) ==
    \/ is_some(st.sql_query)
    \/ /\ is_some(st.ingest_target_table)
       /\ is_some(st.bound_record_batch) \/ is_some(st.bound_record_batch_reader)

\* C19: execute_update on a statement without the required setup returns
\* an error of status InvalidState, not a success.
C19_UpdateWithoutSetupFails ==
    [][ret'.op = "statement.execute_update" /\ ~HasSetup(stmt) =>
            /\ ret'.out.kind = "err"
            /\ ret'.out.status = "InvalidState"]_vars

\* ------------------------------------------------------------------
\* Option values and stored options
\* ------------------------------------------------------------------
\* C21: a set_option call on the database with key Uri, Username or
\* Password, or on the statement with the ingest target table key, whose
\* value is not a String returns an error of status InvalidArguments and
\* leaves the database's and the statement's stored options as they were.
C21_NonStringRejected ==
    [][/\ ret'.op \in {"database.set_option", "statement.set_option"}
       /\ SupportedKey(ret'.op, ret'.key[1])
       /\ ret'.value[1].type # "String"
       => /\ ret'.out.kind = "err"
          /\ ret'.out.status = "InvalidArguments"
          /\ db' = db
          /\ stmt' = stmt]_vars

\* a non-String value was refused for the target table of a statement that
\* has one, over a database whose three options are set
C21_Witness ==
    /\ ret.op = "statement.set_option"
    /\ ret.key = Some(Key("TargetTable"))
    /\ ret.value[1].type # "String"
    /\ ret.out.kind = "err"
    /\ ret.out.status = "InvalidArguments"
    /\ stmt.ingest_target_table = Some("a")
    /\ db = [uri |-> Some("a"), username |-> Some("b"), password |-> Some("a")]

\* a non-String value was refused for the Password of a database that has one
C21_WitnessDatabase ==
    /\ ret.op = "database.set_option"
    /\ ret.key = Some(Key("Password"))
    /\ ret.value[1].type = "Bytes"
    /\ ret.out.kind = "err"
    /\ ret.out.status = "InvalidArguments"
    /\ db.password = Some("b")

\* ------------------------------------------------------------------
\* Operations the driver does not support
\* ------------------------------------------------------------------
UnsupportedCalls ==
    {"connection.cancel"}
        \cup {"connection." \o op : op \in ConnectionNotImplemented}
        \cup {"statement." \o op : op \in StatementNotImplemented}

\* C22: every call of an operation the driver does not support (cancel,
\* commit, rollback, get_statistics, get_statistic_names and read_partition
\* of the connection; cancel, prepare, execute_schema, execute_partitions,
\* get_parameter_schema and set_substrait_plan of the statement) returns an
\* error of status NotImplemented, makes no executor call and changes
\* neither the database, the connection nor the statement.
C22_UnsupportedNotImplemented ==
    [][ret'.op \in UnsupportedCalls =>
            /\ ret'.out.kind = "err"
            /\ ret'.out.status = "NotImplemented"
            /\ sent' = <<>>
            /\ db' = db
            /\ clickhouse_version' = clickhouse_version
            /\ stmt' = stmt]_vars

\* ------------------------------------------------------------------
\* Attribution of children to their parents
\* ------------------------------------------------------------------
\* the answered queries of a level about schema s (and table t)
AnsweredFor(level, s, t) ==
    SelectSeq(Answered(level), LAMBDA e : e.q.schema = s /\ e.q.table = t)

\* the rows the executor returned to an answered query
RowsOf(e) ==
    IF e.q.level = "table"
    THEN fetch_schema_tables(backend, e.q.schema, e.q.pattern)
    ELSE fetch_table_columns(backend, e.q.schema, e.q.table, e.q.pattern)

DecodedSchemas == Decode(result.batch)[1].catalog_db_schemas[1]

\* C23: in the record get_objects returns, decoded through its offset
\* buffers, each schema has exactly the tables its one table query
\* returned, in the returned order, and each table has exactly the column
\* names and type names the one column query of that schema and table
\* returned, in the returned order.
C23_ChildAttribution ==
    Returned /\ result.kind = "ok" /\ args.depth \in DepthTables =>
        \A i \in 1..Len(DecodedSchemas) :
            LET s == DecodedSchemas[i]
                tq == AnsweredFor("table", s.db_schema_name, "")
                tables == s.db_schema_tables[1]
            IN  /\ Len(tq) = 1
                /\ Len(tables) = Len(RowsOf(tq[1]))
                /\ \A k \in 1..Len(tables) :
                      /\ tables[k].table_name = RowsOf(tq[1])[k].name
                      /\ args.depth \in DepthColumns =>
                            LET cq == AnsweredFor("column", s.db_schema_name,
                                                  tables[k].table_name)
                            IN  /\ Len(cq) = 1
                                /\ tables[k].table_columns =
                                      Some([n \in 1..Len(RowsOf(cq[1])) |->
                                          [column_name |-> RowsOf(cq[1])[n].name,
                                           xdbc_type_name |-> RowsOf(cq[1])[n].type]])

\* a full-depth record of two schemas, each with a table that has columns,
\* and a table without columns between tables with columns
C23_Witness ==
    /\ Returned
    /\ result.kind = "ok"
    /\ args.depth \in DepthColumns
    /\ Len(DecodedSchemas) = 2
    /\ \A i \in 1..2 :
          \E k \in 1..Len(DecodedSchemas[i].db_schema_tables[1]) :
              Len(DecodedSchemas[i].db_schema_tables[1][k].table_columns[1]) >= 1
    /\ \E k \in 1..Len(DecodedSchemas[1].db_schema_tables[1]) :
          DecodedSchemas[1].db_schema_tables[1][k].table_columns = Some(<<>>)

\* ------------------------------------------------------------------
\* execute_update and the bound data
\* ------------------------------------------------------------------
\* C24: execute_update on a statement with no SQL query, a bound record
\* batch and no ingest target table makes no executor call and leaves the
\* record batch bound.
C24_BatchStaysBound ==
    [][/\ ret'.op = "statement.execute_update"
       /\ stmt.sql_query = None
       /\ is_some(stmt.bound_record_batch)
       /\ stmt.ingest_target_table = None
       => /\ sent' = <<>>
          /\ stmt'.bound_record_batch = stmt.bound_record_batch]_vars

\* a call that walked the stream items for target_table made the executor
\* calls se and returned out: one insert per batch in stream order up to
\* the first batch that is an error or whose insert failed, and that error
\* is what it returned
StreamIngested(items, target_table, se, out) ==
    /\ Len(se) <= Len(items)
    /\ \A n \in 1..Len(se) :
          /\ items[n].kind = "batch"
          /\ se[n].cmd = "insert"
          /\ se[n].arg = [query |-> "INSERT INTO " \o target_table \o " FORMAT Native",
                          batch |-> items[n].v]
          /\ n < Len(se) => se[n].error = None
    /\ IF out.kind = "ok"
       THEN /\ Len(se) = Len(items)
            /\ \A n \in 1..Len(se) : se[n].error = None
       ELSE /\ out.kind = "err"
            /\ IF se # <<>> /\ is_some(se[Len(se)].error)
               THEN /\ out.status = (IF se[Len(se)].error[1].io THEN "IO" ELSE "Internal")
                    /\ Occurrences(out.message, se[Len(se)].error[1].text) = 1
               ELSE /\ Len(se) < Len(items)
                    /\ items[Len(se) + 1].kind = "err"
                    /\ out.message = items[Len(se) + 1].v

\* C25 as stated: execute_update on a statement with no SQL query, a target
\* table and a bound stream issues one insert per batch in stream order,
\* stops at the first batch that is an error or whose insert fails and
\* returns that error, and has removed the bound stream when it returns.
C25_StreamIngest ==
    [][/\ ret'.op = "statement.execute_update"
       /\ stmt.sql_query = None
       /\ is_some(stmt.ingest_target_table)
       /\ is_some(stmt.bound_record_batch_reader)
       => /\ StreamIngested(stmt.bound_record_batch_reader[1],
                            stmt.ingest_target_table[1], sent', ret'.out)
          /\ stmt'.bound_record_batch_reader = None]_vars

\* C25 amended: the same on a statement that has, besides, no bound record
\* batch; the call leaves the SQL query and the target table as they were.
C25_StreamIngestNoBatch ==
    [][/\ ret'.op = "statement.execute_update"
       /\ stmt.sql_query = None
       /\ stmt.bound_record_batch = None
       /\ is_some(stmt.ingest_target_table)
       /\ is_some(stmt.bound_record_batch_reader)
       => /\ StreamIngested(stmt.bound_record_batch_reader[1],
                            stmt.ingest_target_table[1], sent', ret'.out)
          /\ stmt' = [stmt EXCEPT !.bound_record_batch_reader = None]]_vars

\* a stream of two batches whose second insert failed
C25_Witness ==
    /\ ret.op = "statement.execute_update"
    /\ ret.out.kind = "err"
    /\ Len(sent) = 2
    /\ sent[1].cmd = "insert"
    /\ sent[1].error = None
    /\ is_some(sent[2].error)
    /\ stmt.bound_record_batch_reader = None

\* a stream whose second item is an error: one insert, then the error
C25_WitnessBadBatch ==
    /\ ret.op = "statement.execute_update"
    /\ ret.out.kind = "err"
    /\ ret.out.message = ItemError.v
    /\ Len(sent) = 1
    /\ sent[1].cmd = "insert"
    /\ sent[1].error = None
    /\ stmt.bound_record_batch_reader = None

\* a stream of two batches, both inserted
C25_WitnessAll ==
    /\ ret.op = "statement.execute_update"
    /\ ret.out.kind = "ok"
    /\ Len(sent) = 2
    /\ stmt.bound_record_batch_reader = None

\* C26: the SQL query of a statement is the text of the latest
\* set_sql_query call, no other call changes or clears it, and every
\* execute_update on a statement that has one makes exactly one executor
\* call, the execution of that text, makes no insert, and leaves the SQL
\* query, the bound batch, the bound stream and the target table as they
\* were.
C26_QueryWins ==
    [][/\ ret'.op = "statement.set_sql_query" =>
            /\ ret'.out.kind = "ok"
            /\ stmt'.sql_query = ret'.value
       /\ stmt'.sql_query # stmt.sql_query => ret'.op = "statement.set_sql_query"
       /\ ret'.op = "statement.execute_update" /\ is_some(stmt.sql_query) =>
            /\ Len(sent') = 1
            /\ sent'[1].cmd = "execute"
            /\ sent'[1].arg = stmt.sql_query[1]
            /\ stmt' = stmt]_vars

\* execute_update ran the query of a statement that also has a bound
\* batch, a bound stream of two items and a target table
C26_Witness ==
    /\ ret.op = "statement.execute_update"
    /\ stmt.sql_query = Some("INSERT 2")
    /\ is_some(stmt.bound_record_batch)
    /\ is_some(stmt.bound_record_batch_reader)
    /\ Len(stmt.bound_record_batch_reader[1]) = 2
    /\ is_some(stmt.ingest_target_table)
    /\ sent = <<Sent("execute", "INSERT 2", None)>>
    /\ ret.out.kind = "ok"

\* ------------------------------------------------------------------
\* Option round trip
\* ------------------------------------------------------------------
\* the stored options of a database and a statement, by slot
Options(d, st) ==
    [Uri |-> d.uri, Username |-> d.username, Password |-> d.password,
     TargetTable |-> st.ingest_target_table]

\* the slot a call with a supported key is about
SlotOf(op, key) == IF StartsWith(op, "database.") THEN key.k ELSE "TargetTable"

\* C29: no option is set on a new database or statement; a set_option
\* call with a supported key and a String value succeeds and stores the
\* value in the slot of its key only; no other call changes a stored
\* option; and get_option_string with a supported key returns the stored
\* value, or an error of status NotFound when the slot is empty.  Hence
\* get_option_string returns the value of the latest successful set of its
\* key, and NotFound when there was none.
C29_OptionRoundTrip ==
    /\ Options(db, stmt) = [Uri |-> None, Username |-> None, Password |-> None,
                            TargetTable |-> None]
    /\ [][LET stored == Options(db, stmt)
              set == /\ ret'.op \in {"database.set_option", "statement.set_option"}
                     /\ SupportedKey(ret'.op, ret'.key[1])
                     /\ ret'.value[1].type = "String"
              get == /\ ret'.op \in {"database.get_option_string",
                                     "statement.get_option_string"}
                     /\ SupportedKey(ret'.op, ret'.key[1])
          IN  /\ set => /\ ret'.out.kind = "ok"
                        /\ Options(db', stmt') =
                              [stored EXCEPT ![SlotOf(ret'.op, ret'.key[1])] =
                                  Some(ret'.value[1].v)]
              /\ ~set => Options(db', stmt') = stored
              /\ get => IF is_some(stored[SlotOf(ret'.op, ret'.key[1])])
                        THEN ret'.out = Ok(stored[SlotOf(ret'.op, ret'.key[1])][1])
                        ELSE /\ ret'.out.kind = "err"
                             /\ ret'.out.status = "NotFound"]_vars

\* the password was read back after the username and the target table had
\* been set to other values and the password had been set twice
C29_Witness ==
    /\ ret.op = "database.get_option_string"
    /\ ret.key = Some(Key("Password"))
    /\ ret.out = Ok("b")
    /\ db = [uri |-> None, username |-> Some("a"), password |-> Some("b")]
    /\ stmt.ingest_target_table = Some("a")

\* the target table was asked for on a statement that never got one,
\* after the database's options had been set
C29_WitnessNotFound ==
    /\ ret.op = "statement.get_option_string"
    /\ ret.key = Some(Key("TargetTable"))
    /\ ret.out.kind = "err"
    /\ ret.out.status = "NotFound"
    /\ stmt.ingest_target_table = None
    /\ is_some(db.uri)

\* ------------------------------------------------------------------
\* The readers
\* ------------------------------------------------------------------
\* C27: the first next call on a SingleBatchReader returned the record
\* batch it was constructed from, every later next call returned None, and
\* each schema call, before and after the batch was taken, returned the
\* schema of that batch.
C27_SingleBatchOnce ==
    is_some(single_reader) =>
        /\ \A n \in 1..Len(yielded.single) :
              yielded.single[n] = (IF n = 1 THEN Some(Item(source.single[1])) ELSE None)
        /\ single_reader[1].batch = (IF yielded.single = <<>> THEN source.single ELSE None)
        /\ ret.op = "SingleBatchReader.schema" => ret.out = Ok(Schema(source.single[1]))

\* schema was called after three next calls
C27_Witness ==
    /\ is_some(single_reader)
    /\ Len(yielded.single) = 3
    /\ ret.op = "SingleBatchReader.schema"
    /\ ret.out.kind = "ok"

\* schema was called before the first next call
C27_WitnessBefore ==
    /\ is_some(single_reader)
    /\ yielded.single = <<>>
    /\ ret.op = "SingleBatchReader.schema"
    /\ ret.out.kind = "ok"

\* the item next returns for an item of the response stream
Returned_item(item) ==
    IF item.kind = "err" THEN [kind |-> "err", v |-> ExternalError(item.v)] ELSE item

\* C28: the n-th next call on a ClickhouseReader returned the n-th item of
\* the response stream it was constructed from, an error item as an
\* external error, the first item included, and None once the stream had
\* ended.
C28_ReaderYieldsStream ==
    is_some(ch_reader) =>
        \A n \in 1..Len(yielded.stream) :
            yielded.stream[n] =
                (IF n <= Len(source.stream[1])
                 THEN Some(Returned_item(source.stream[1][n]))
                 ELSE None)

\* a stream of a batch and an error was read to its end
C28_Witness ==
    /\ is_some(ch_reader)
    /\ Len(source.stream[1]) = 2
    /\ source.stream[1][1].kind = "batch"
    /\ source.stream[1][2].kind = "err"
    /\ Len(yielded.stream) = 3
    /\ yielded.stream[3] = None

\* a stream whose first item is an error: the reader has no schema and
\* still returns the error first
C28_WitnessErrorFirst ==
    /\ is_some(ch_reader)
    /\ ch_reader[1].schema = None
    /\ Len(source.stream[1]) = 2
    /\ Len(yielded.stream) = 2
    /\ yielded.stream[1][1].kind = "err"
    /\ yielded.stream[2][1].kind = "batch"

====
